---- MODULE Spec2Model ----
(***************************************************************************)
(* Cross-source similarity detection, clustering and story prioritization  *)
(* of the news-ai backend (src/backend/src/services).                      *)
(*                                                                         *)
(* Numbers.  The program computes with floats in [0, 1].  Here a score is  *)
(* an integer number of thousandths (Scale = 1000 stands for 1.0), a       *)
(* quotient is rounded down to a thousandth, and a weighted sum of scores  *)
(* is kept exactly, in millionths (Scale * Scale stands for 1.0).          *)
(*                                                                         *)
(* Text.  A string is a sequence of one-character strings.                 *)
(*                                                                         *)
(* Dates.  A published_date string is a record [kind, t]: kind "naive" or  *)
(* "aware" is a string dateutil parses (without / with a UTC offset) to    *)
(* the instant t, in minutes; "garbage" is a non-empty string that no      *)
(* parser accepts; "empty" is the empty string.                            *)
(***************************************************************************)
EXTENDS Integers, Sequences, FiniteSets, TLC

VARIABLES
  detector,      \* the SimilarityDetector: its construction status, threshold, weights
  articles,      \* the batch of NewsArticle objects handed to the detector / read from the db
  similarities,  \* the list of SimilarityResult the last detector call returned
  call,          \* the last detector or service call and its arguments
  pair,          \* the results of the last calculate_overall_similarity calls on a pair
  clusters,      \* the list of ArticleCluster the last _create_article_clusters built
  metrics,       \* the SimilarityMetrics the last detect_all_similarities returned
  config,        \* the PrioritizationConfig: its construction status and fields
  article_clusters, \* the list of cluster dicts handed to prioritize_stories
  stories,       \* the list of PrioritizedStory the last prioritize_stories returned
  workers        \* the workers that share the detector: each one's pairs, position, results

vars == <<detector, articles, similarities, call, pair, clusters, metrics,
          config, article_clusters, stories, workers>>

detectorVars == <<detector, articles, similarities, call, pair>>
detectorVarsButCall == <<detector, articles, similarities, pair>>
serviceVars == <<clusters, metrics>>
prioritizationVars == <<config, article_clusters, stories>>

-----------------------------------------------------------------------------
(* Arithmetic *)

Scale == 10 * 10 * 10

Min(a, b) == IF a <= b THEN a ELSE b
Max(a, b) == IF a >= b THEN a ELSE b
Abs(a) == IF a >= 0 THEN a ELSE 0 - a

\* abs(total_weight - 1.0) > 0.01, the test of both constructors, for a total in
\* thousandths.  The test is made in double precision: the doubles nearest 0.99 and
\* 1.01 are both 0.010000000000000009 away from 1.0, which is more than the double
\* nearest 0.01, so a total that is a hundredth off already fails the tolerance
\* (as 0.4 + 0.35 + 0.26 does, and every total the constructors are given below).
OutsideTolerance(total_weight) == Abs(total_weight - Scale) >= Scale \div 100

\* Python's true division of a by b, a >= 0 and b > 0, in thousandths, rounded down.
Frac(a, b) == (a * Scale) \div b

\* The elements of a sequence, as a set.
Range(s) == {s[i] : i \in DOMAIN s}

RECURSIVE SumSeq(_)
SumSeq(s) == IF s = <<>> THEN 0 ELSE Head(s) + SumSeq(Tail(s))

\* list.sort(key=..., reverse=True) and sorted(..., reverse=True): Python's sort is
\* stable, and reverse=True keeps the original order of elements with equal keys.
\* The result is the permutation of the indices of `keys`.
RECURSIVE InsertDesc(_, _, _)
InsertDesc(perm, keys, i) ==
  IF perm = <<>> THEN <<i>>
  ELSE IF keys[Head(perm)] >= keys[i]
       THEN <<Head(perm)>> \o InsertDesc(Tail(perm), keys, i)
       ELSE <<i>> \o perm

RECURSIVE SortDescFrom(_, _, _)
SortDescFrom(perm, keys, i) ==
  IF i > Len(keys) THEN perm
  ELSE SortDescFrom(InsertDesc(perm, keys, i), keys, i + 1)

\* A sort into ascending order, where the code sorts with reverse=True.
AscendingSort(keys) == SortDescFrom(<<>>, [i \in DOMAIN keys |-> 0 - keys[i]], 1)

\* A descending sort that puts elements with equal keys in the reverse of their
\* original order: sort(key=...) followed by reverse().
ReversedAscendingSort(keys) ==
  LET ascending == AscendingSort(keys)
  IN  [i \in DOMAIN keys |-> ascending[Len(keys) + 1 - i]]

StableSortDesc(keys) == SortDescFrom(<<>>, keys, 1)

-----------------------------------------------------------------------------
(* text_utils.py *)

STOP_WORDS ==
  {
    <<"a">>, <<"a", "b", "o", "u", "t">>, <<"a", "b", "o", "v", "e">>,
    <<"a", "f", "t", "e", "r">>, <<"a", "m", "o", "n", "g">>, <<"a", "n">>, <<"a", "n", "d">>,
    <<"a", "r", "e">>, <<"a", "t">>, <<"b", "e">>, <<"b", "e", "e", "n">>,
    <<"b", "e", "f", "o", "r", "e">>, <<"b", "e", "i", "n", "g">>, <<"b", "e", "l", "o", "w">>,
    <<"b", "e", "t", "w", "e", "e", "n">>, <<"b", "u", "t">>, <<"b", "y">>, <<"c", "a", "n">>,
    <<"c", "o", "u", "l", "d">>, <<"d", "i", "d">>, <<"d", "o">>, <<"d", "o", "e", "s">>,
    <<"d", "u", "r", "i", "n", "g">>, <<"f", "o", "r">>, <<"f", "r", "o", "m">>,
    <<"h", "a", "d">>, <<"h", "a", "s">>, <<"h", "a", "v", "e">>, <<"h", "e">>,
    <<"h", "e", "r">>, <<"h", "i", "m">>, <<"h", "i", "s">>, <<"i">>, <<"i", "n">>,
    <<"i", "n", "t", "o">>, <<"i", "s">>, <<"i", "t">>, <<"i", "t", "s">>, <<"m", "a", "y">>,
    <<"m", "e">>, <<"m", "i", "g", "h", "t">>, <<"m", "u", "s", "t">>, <<"m", "y">>,
    <<"n", "e", "w">>, <<"n", "e", "w", "s">>, <<"o", "f">>, <<"o", "n">>, <<"o", "r">>,
    <<"o", "u", "r">>, <<"o", "v", "e", "r">>, <<"s", "a", "i", "d">>, <<"s", "a", "y", "s">>,
    <<"s", "h", "a", "l", "l">>, <<"s", "h", "e">>, <<"s", "h", "o", "u", "l", "d">>,
    <<"t", "h", "a", "t">>, <<"t", "h", "e">>, <<"t", "h", "e", "i", "r">>,
    <<"t", "h", "e", "m">>, <<"t", "h", "e", "s", "e">>, <<"t", "h", "e", "y">>,
    <<"t", "h", "i", "s">>, <<"t", "h", "o", "s", "e">>, <<"t", "h", "r", "o", "u", "g", "h">>,
    <<"t", "o">>, <<"u", "n", "d", "e", "r">>, <<"u", "n", "t", "i", "l">>, <<"u", "p">>,
    <<"u", "s">>, <<"w", "a", "s">>, <<"w", "e">>, <<"w", "e", "r", "e">>,
    <<"w", "i", "l", "l">>, <<"w", "i", "t", "h">>, <<"w", "o", "u", "l", "d">>,
    <<"y", "o", "u">>, <<"y", "o", "u", "r">>
  }

AUS_NEWS_WORDS ==
  {
    <<"a", "c", "t">>, <<"a", "d", "e", "l", "a", "i", "d", "e">>, <<"a", "u", "s">>,
    <<"a", "u", "s", "t", "r", "a", "l", "i", "a">>,
    <<"a", "u", "s", "t", "r", "a", "l", "i", "a", "n">>,
    <<"b", "r", "e", "a", "k", "i", "n", "g">>, <<"b", "r", "i", "s", "b", "a", "n", "e">>,
    <<"c", "a", "n", "b", "e", "r", "r", "a">>, <<"d", "a", "r", "w", "i", "n">>,
    <<"l", "a", "t", "e", "s", "t">>, <<"l", "i", "v", "e">>,
    <<"m", "e", "l", "b", "o", "u", "r", "n", "e">>, <<"n", "s", "w">>, <<"n", "t">>,
    <<"p", "e", "r", "t", "h">>, <<"q", "l", "d">>, <<"s", "a">>,
    <<"s", "y", "d", "n", "e", "y">>, <<"t", "a", "s">>, <<"u", "p", "d", "a", "t", "e">>,
    <<"v", "i", "c">>, <<"w", "a">>
  }

ALL_STOP_WORDS == STOP_WORDS \cup AUS_NEWS_WORDS

\* str.lower(), on the capitals that occur in the modelled texts.
UpperCase ==
  [c \in {"A", "B", "C", "D", "E", "F", "G", "H", "I", "J", "K", "L", "M",
          "N", "O", "P", "Q", "R", "S", "T", "U", "V", "W", "X", "Y", "Z"} |->
     CASE c = "A" -> "a" [] c = "B" -> "b" [] c = "C" -> "c" [] c = "D" -> "d"
       [] c = "E" -> "e" [] c = "F" -> "f" [] c = "G" -> "g" [] c = "H" -> "h"
       [] c = "I" -> "i" [] c = "J" -> "j" [] c = "K" -> "k" [] c = "L" -> "l"
       [] c = "M" -> "m" [] c = "N" -> "n" [] c = "O" -> "o" [] c = "P" -> "p"
       [] c = "Q" -> "q" [] c = "R" -> "r" [] c = "S" -> "s" [] c = "T" -> "t"
       [] c = "U" -> "u" [] c = "V" -> "v" [] c = "W" -> "w" [] c = "X" -> "x"
       [] c = "Y" -> "y" [] c = "Z" -> "z"]

LowerChar(c) == IF c \in DOMAIN UpperCase THEN UpperCase[c] ELSE c
Lower(s) == [i \in DOMAIN s |-> LowerChar(s[i])]

\* The characters the pattern [^\w\s'] matches: punctuation other than the apostrophe.
Punctuation == {"!", "?", ",", ".", ":", ";", "-", "(", ")", "\""}
Whitespace == {" "}
Digits == {"0", "1", "2", "3", "4", "5", "6", "7", "8", "9"}

\* re.sub(r"[^\w\s']", ' ', s)
SubPunctuation(s) == [i \in DOMAIN s |-> IF s[i] \in Punctuation THEN " " ELSE s[i]]

\* str.split(): the maximal runs of non-whitespace characters, in order.
RECURSIVE SplitFrom(_, _, _)
SplitFrom(s, i, word) ==
  IF i > Len(s)
  THEN IF word = <<>> THEN <<>> ELSE <<word>>
  ELSE IF s[i] \in Whitespace
       THEN IF word = <<>> THEN SplitFrom(s, i + 1, <<>>)
            ELSE <<word>> \o SplitFrom(s, i + 1, <<>>)
       ELSE SplitFrom(s, i + 1, Append(word, s[i]))

Split(s) == SplitFrom(s, 1, <<>>)

\* ' '.join(words)
RECURSIVE Join(_)
Join(words) ==
  IF words = <<>> THEN <<>>
  ELSE IF Len(words) = 1 THEN Head(words)
  ELSE Head(words) \o <<" ">> \o Join(Tail(words))

\* [x for x in s if Keep(x)]
RECURSIVE SelectWords(_, _)
SelectWords(words, keep) ==
  IF words = <<>> THEN <<>>
  ELSE IF Head(words) \in keep
       THEN <<Head(words)>> \o SelectWords(Tail(words), keep)
       ELSE SelectWords(Tail(words), keep)

\* The words of clean_title that are kept: no stop words, and longer than 2 characters.
MeaningfulWords(words) ==
  Join(SelectWords(words, {w \in Range(words) : w \notin ALL_STOP_WORDS /\ Len(w) > 2}))

clean_title(title) ==
  IF title = <<>> THEN <<>>
  ELSE MeaningfulWords(Split(SubPunctuation(Lower(title))))

\* str.isdigit(): non-empty and digits only.
IsDigit(w) == w # <<>> /\ \A i \in DOMAIN w : w[i] \in Digits

\* The number of occurrences of w in words.
RECURSIVE CountWord(_, _)
CountWord(words, w) ==
  IF words = <<>> THEN 0
  ELSE (IF Head(words) = w THEN 1 ELSE 0) + CountWord(Tail(words), w)

\* The keys of word_freq, in insertion order: the keywords by first occurrence.
RECURSIVE FirstOccurrences(_, _, _)
FirstOccurrences(words, keywords, seen) ==
  IF words = <<>> THEN <<>>
  ELSE IF Head(words) \in keywords /\ Head(words) \notin seen
       THEN <<Head(words)>> \o FirstOccurrences(Tail(words), keywords, seen \cup {Head(words)})
       ELSE FirstOccurrences(Tail(words), keywords, seen)

\* sorted(word_freq.items(), key=lambda x: x[1], reverse=True)[:max_words], of the
\* keys of word_freq in insertion order.
MostFrequent(words, keys, max_words) ==
  LET sorted_words == StableSortDesc([i \in DOMAIN keys |-> CountWord(words, keys[i])])
  IN  {keys[sorted_words[i]] : i \in 1..Min(max_words, Len(keys))}

\* The end of extract_keywords: the keywords, cut down to the max_words most frequent.
LimitKeywords(words, keywords, max_words) ==
  IF Cardinality(keywords) > max_words
  THEN MostFrequent(words, FirstOccurrences(words, keywords, {}), max_words)
  ELSE keywords

\* The keywords among the words of the text.
KeywordsOf(words, min_length, max_words) ==
  LimitKeywords(words,
                {w \in Range(words) :
                   Len(w) >= min_length /\ w \notin ALL_STOP_WORDS /\ ~IsDigit(w)},
                max_words)

extract_keywords(text, min_length, max_words) ==
  IF text = <<>> THEN {}
  ELSE KeywordsOf(Split(SubPunctuation(Lower(text))), min_length, max_words)

DefaultMinLength == 3
DefaultMaxWords == 20

\* normalize_date: the datetime a date string parses to, or the exception raised.
normalize_date(date_str) ==
  CASE date_str.kind = "empty" -> [raised |-> "ValueError"]
    [] date_str.kind = "garbage" -> [raised |-> "ValueError"]
    [] OTHER -> [raised |-> "none", aware |-> date_str.kind = "aware", t |-> date_str.t]

\* The time windows of calculate_time_similarity, in minutes (6, 24, 48 and 168 hours).
TimeWindowScore(date1, date2) ==
  IF date1.raised # "none" \/ date2.raised # "none" THEN 0
  ELSE IF date1.aware # date2.aware THEN 0   \* TypeError: naive - aware
  ELSE LET time_diff == Abs(date1.t - date2.t)
       IN  IF time_diff <= 6 * 60 THEN Scale
           ELSE IF time_diff <= 24 * 60 THEN (8 * Scale) \div 10
           ELSE IF time_diff <= 48 * 60 THEN (5 * Scale) \div 10
           ELSE IF time_diff <= 168 * 60 THEN (2 * Scale) \div 10
           ELSE 0

calculate_time_similarity(date1_str, date2_str) ==
  TimeWindowScore(normalize_date(date1_str), normalize_date(date2_str))

-----------------------------------------------------------------------------
(* difflib.SequenceMatcher(None, a, b), as similarity_detector.py uses it: no junk,
   and no autojunk below 200 characters. *)

\* The length of the longest common prefix of a[i..ahi] and b[j..bhi].
RECURSIVE MatchLength(_, _, _, _, _, _)
MatchLength(a, b, i, ahi, j, bhi) ==
  IF i > ahi \/ j > bhi \/ a[i] # b[j] THEN 0
  ELSE 1 + MatchLength(a, b, i + 1, ahi, j + 1, bhi)

\* find_longest_match: the longest block a[i..i+k-1] = b[j..j+k-1] within a[alo..ahi] and
\* b[blo..bhi]; of the longest blocks the one that starts earliest in a, and of those the
\* one that starts earliest in b (a later start wins only when strictly longer).
RECURSIVE LongestMatchInRow(_, _, _, _, _, _)
LongestMatchInRow(a, b, i, j, ahi, bhi) ==
  IF j > bhi THEN [i |-> i, j |-> j, k |-> 0]
  ELSE LET k == MatchLength(a, b, i, ahi, j, bhi)
           later == LongestMatchInRow(a, b, i, j + 1, ahi, bhi)
       IN  IF k >= later.k THEN [i |-> i, j |-> j, k |-> k] ELSE later

RECURSIVE LongestMatchFromRow(_, _, _, _, _, _)
LongestMatchFromRow(a, b, i, ahi, blo, bhi) ==
  IF i > ahi THEN [i |-> i, j |-> blo, k |-> 0]
  ELSE LET row == LongestMatchInRow(a, b, i, blo, ahi, bhi)
           later == LongestMatchFromRow(a, b, i + 1, ahi, blo, bhi)
       IN  IF row.k >= later.k THEN row ELSE later

find_longest_match(a, b, alo, ahi, blo, bhi) ==
  LongestMatchFromRow(a, b, alo, ahi, blo, bhi)

\* get_matching_blocks, summed: the block found, then the blocks to its left and right.
RECURSIVE MatchedCharacters(_, _, _, _, _, _)
RECURSIVE MatchedAround(_, _, _, _, _, _, _)
MatchedCharacters(a, b, alo, ahi, blo, bhi) ==
  MatchedAround(a, b, alo, ahi, blo, bhi, find_longest_match(a, b, alo, ahi, blo, bhi))

MatchedAround(a, b, alo, ahi, blo, bhi, m) ==
  IF m.k = 0 THEN 0
  ELSE m.k + MatchedCharacters(a, b, alo, m.i - 1, blo, m.j - 1)
           + MatchedCharacters(a, b, m.i + m.k, ahi, m.j + m.k, bhi)

\* ratio(): 2.0 * matches / (len(a) + len(b)), and 1.0 for two empty sequences.
SequenceMatcherRatio(a, b) ==
  IF Len(a) + Len(b) = 0 THEN Scale
  ELSE Frac(2 * MatchedCharacters(a, b, 1, Len(a), 1, Len(b)), Len(a) + Len(b))

-----------------------------------------------------------------------------
(* similarity_detector.py *)

\* The end of calculate_title_similarity: the ratio, with the bonus for shared words.
WithWordOverlapBonus(similarity, words1, words2) ==
  IF words1 # {} /\ words2 # {}
  THEN Min(Scale, similarity
                  + (Cardinality(words1 \cap words2) * 2 * Scale)
                      \div (Max(Cardinality(words1), Cardinality(words2)) * 10))
  ELSE similarity

\* calculate_title_similarity, of the two cleaned titles.
CleanTitleSimilarity(clean1, clean2) ==
  IF clean1 = <<>> \/ clean2 = <<>> THEN 0
  ELSE WithWordOverlapBonus(SequenceMatcherRatio(clean1, clean2),
                            Range(Split(clean1)), Range(Split(clean2)))

calculate_title_similarity(title1, title2) ==
  IF title1 = <<>> \/ title2 = <<>> THEN 0
  ELSE CleanTitleSimilarity(clean_title(title1), clean_title(title2))

\* f"{article.title} {article.summary} {' '.join(article.tags)}"
KeywordText(article) ==
  article.title \o <<" ">> \o article.summary \o <<" ">> \o Join(article.tags)

\* The end of calculate_keyword_similarity: the Jaccard similarity, with the bonus.
JaccardWithBonus(keywords1, keywords2, category_bonus) ==
  IF keywords1 = {} \/ keywords2 = {} THEN 0
  ELSE Min(Scale, (IF Cardinality(keywords1 \cup keywords2) > 0
                   THEN Frac(Cardinality(keywords1 \cap keywords2),
                             Cardinality(keywords1 \cup keywords2))
                   ELSE 0)
                  + category_bonus)

calculate_keyword_similarity(article1, article2) ==
  JaccardWithBonus(
    extract_keywords(KeywordText(article1), DefaultMinLength, DefaultMaxWords),
    extract_keywords(KeywordText(article2), DefaultMinLength, DefaultMaxWords),
    IF article1.category = article2.category THEN Scale \div 10 ELSE 0)

\* _generate_explanation: the phrases, and the lead chosen by the overall score.
GenerateExplanation(title_sim, keyword_sim, time_sim, overall_sim) ==
  LET headline == IF title_sim > 800 THEN <<"very similar headlines">>
                  ELSE IF title_sim > 600 THEN <<"similar headlines">>
                  ELSE IF title_sim > 400 THEN <<"somewhat similar headlines">>
                  ELSE <<>>
      keyword == IF keyword_sim > 700 THEN <<"high keyword overlap">>
                 ELSE IF keyword_sim > 400 THEN <<"moderate keyword overlap">>
                 ELSE <<>>
      time == IF time_sim > 800 THEN <<"published around the same time">>
              ELSE IF time_sim > 400 THEN <<"published within a similar timeframe">>
              ELSE <<>>
      explanations == headline \o keyword \o time
  IN  [lead |-> IF overall_sim > 800 * Scale THEN "High similarity due to"
                ELSE IF overall_sim > 600 * Scale THEN "Moderate similarity due to"
                ELSE "Low similarity based on",
       phrases |-> IF explanations = <<>> THEN <<"low overall similarity">>
                   ELSE explanations]

\* The SimilarityResult calculate_overall_similarity builds.  similarity_score is in
\* millionths, the three sub-scores in thousandths.
SimilarityResult(article1, article2, overall_similarity, title_sim, keyword_sim, time_sim) ==
  [article_id_1 |-> article1.id,
   article_id_2 |-> article2.id,
   similarity_score |-> overall_similarity,
   title_similarity |-> title_sim,
   keyword_similarity |-> keyword_sim,
   time_similarity |-> time_sim,
   method_used |-> "hybrid_weighted",
   explanation |-> GenerateExplanation(title_sim, keyword_sim, time_sim,
                                       overall_similarity)]

WeightedSimilarity(self, article1, article2, title_sim, keyword_sim, time_sim) ==
  SimilarityResult(article1, article2,
                   title_sim * self.title_weight + keyword_sim * self.keyword_weight
                     + time_sim * self.time_weight,
                   title_sim, keyword_sim, time_sim)

calculate_overall_similarity(self, article1, article2) ==
  WeightedSimilarity(
    self, article1, article2,
    calculate_title_similarity(article1.title, article2.title),
    calculate_keyword_similarity(article1, article2),
    calculate_time_similarity(article1.published_date, article2.published_date))

\* A comparison that leaves out the scores equal to the threshold.
StrictlyAboveThreshold(self, similarity) ==
  similarity.similarity_score > self.similarity_threshold * Scale

\* similarity.similarity_score >= self.similarity_threshold
AboveThreshold(self, similarity) ==
  similarity.similarity_score >= self.similarity_threshold * Scale

\* SimilarityResult.is_similar
is_similar(self) == self.similarity_score >= 700 * Scale

\* SimilarityDetector.__init__: the detector built, or the exception raised.  The
\* threshold and the weights are in thousandths.
SimilarityDetector(similarity_threshold, title_weight, keyword_weight, time_weight) ==
  LET total_weight == title_weight + keyword_weight + time_weight
  IN  IF OutsideTolerance(total_weight)
      THEN IF total_weight = 0
           THEN [status |-> "raised", exception |-> "ZeroDivisionError"]
           ELSE [status |-> "ready",
                 similarity_threshold |-> similarity_threshold,
                 title_weight |-> Frac(title_weight, total_weight),
                 keyword_weight |-> Frac(keyword_weight, total_weight),
                 time_weight |-> Frac(time_weight, total_weight)]
      ELSE [status |-> "ready",
            similarity_threshold |-> similarity_threshold,
            title_weight |-> title_weight,
            keyword_weight |-> keyword_weight,
            time_weight |-> time_weight]

\* The defaults of SimilarityDetector.__init__, which SimilarityService uses.
DefaultSimilarityThreshold == 700
DefaultTitleWeight == 600
DefaultKeywordWeight == 250
DefaultTimeWeight == 150

\* if similarity.similarity_score >= self.similarity_threshold:
\*     similarities.append(similarity)
AppendIfSimilar(self, similarity) ==
  IF AboveThreshold(self, similarity) THEN <<similarity>> ELSE <<>>

\* The inner loop of batch_similarity_detection: article i against articles j, j+1, ...
RECURSIVE BatchInner(_, _, _, _)
BatchInner(self, arts, i, j) ==
  IF j > Len(arts) THEN <<>>
  ELSE IF arts[i].source = arts[j].source
       THEN BatchInner(self, arts, i, j + 1)
       ELSE AppendIfSimilar(self, calculate_overall_similarity(self, arts[i], arts[j]))
            \o BatchInner(self, arts, i, j + 1)

RECURSIVE BatchOuter(_, _, _)
BatchOuter(self, arts, i) ==
  IF i > Len(arts) THEN <<>>
  ELSE BatchInner(self, arts, i, i + 1) \o BatchOuter(self, arts, i + 1)

\* A batch detection that keeps every cross-source pair, whatever its score.
RECURSIVE UnfilteredInner(_, _, _, _)
UnfilteredInner(self, arts, i, j) ==
  IF j > Len(arts) THEN <<>>
  ELSE IF arts[i].source = arts[j].source
       THEN UnfilteredInner(self, arts, i, j + 1)
       ELSE <<calculate_overall_similarity(self, arts[i], arts[j])>>
            \o UnfilteredInner(self, arts, i, j + 1)

RECURSIVE UnfilteredOuter(_, _, _)
UnfilteredOuter(self, arts, i) ==
  IF i > Len(arts) THEN <<>>
  ELSE UnfilteredInner(self, arts, i, i + 1) \o UnfilteredOuter(self, arts, i + 1)

BatchUnfiltered(self, arts) == UnfilteredOuter(self, arts, 1)

batch_similarity_detection(self, arts) == BatchOuter(self, arts, 1)

\* The loop of find_similar_articles over the candidates, before the sort.
RECURSIVE FindLoop(_, _, _)
FindLoop(self, target_article, candidates) ==
  IF candidates = <<>> THEN <<>>
  ELSE IF target_article.id = Head(candidates).id
       THEN FindLoop(self, target_article, Tail(candidates))
       ELSE IF target_article.source = Head(candidates).source
       THEN FindLoop(self, target_article, Tail(candidates))
       ELSE AppendIfSimilar(self, calculate_overall_similarity(self, target_article,
                                                                Head(candidates)))
            \o FindLoop(self, target_article, Tail(candidates))

\* similarities.sort(key=lambda x: x.similarity_score, reverse=True), and then
\* similarities[:max_results]
SortAndTruncate(found, max_results) ==
  LET order == StableSortDesc([i \in DOMAIN found |-> found[i].similarity_score])
  IN  [i \in 1..Min(max_results, Len(found)) |-> found[order[i]]]

\* A search that compares the target with the candidates of its own source too.
RECURSIVE FindLoopAnySource(_, _, _)
FindLoopAnySource(self, target_article, candidates) ==
  IF candidates = <<>> THEN <<>>
  ELSE IF target_article.id = Head(candidates).id
       THEN FindLoopAnySource(self, target_article, Tail(candidates))
       ELSE AppendIfSimilar(self, calculate_overall_similarity(self, target_article,
                                                                Head(candidates)))
            \o FindLoopAnySource(self, target_article, Tail(candidates))

FindIgnoringSource(self, target_article, candidate_articles, max_results) ==
  SortAndTruncate(FindLoopAnySource(self, target_article, candidate_articles), max_results)

find_similar_articles(self, target_article, candidate_articles, max_results) ==
  SortAndTruncate(FindLoop(self, target_article, candidate_articles), max_results)

-----------------------------------------------------------------------------
(* The articles of the model *)

TitleTideRises == <<"T", "i", "d", "e", " ", "r", "i", "s", "e", "s">>
TitleTideRisesLive == <<"L", "i", "v", "e", ":", " ", "t", "i", "d", "e", " ", "r", "i", "s", "e", "s", "!">>
TitleTide == <<"t", "i", "d", "e">>
TitleDiet == <<"d", "i", "e", "t">>
TagTide == <<"t", "i", "d", "e">>
SummaryIn2024 == <<"i", "n", " ", "2", "0", "2", "4">>

NaiveDate(t) == [kind |-> "naive", t |-> t]
AwareDate(t) == [kind |-> "aware", t |-> t]
GarbageDate == [kind |-> "garbage", t |-> 0]

\* NewsArticle objects without their id: the fields the detector reads.
ArticlePool ==
  << [title |-> TitleTideRises, summary |-> <<>>, tags |-> <<>>, category |-> "news",
      published_date |-> NaiveDate(0), source |-> "ABC News"],
     [title |-> TitleTideRisesLive, summary |-> SummaryIn2024, tags |-> <<TagTide>>,
      category |-> "news", published_date |-> NaiveDate(60),
      source |-> "The Guardian AU"],
     [title |-> TitleTideRises, summary |-> <<>>, tags |-> <<>>, category |-> "news",
      published_date |-> NaiveDate(500), source |-> "ABC News"],
     [title |-> TitleDiet, summary |-> <<>>, tags |-> <<>>, category |-> "lifestyle",
      published_date |-> GarbageDate, source |-> "Sydney Morning Herald"],
     [title |-> TitleTide, summary |-> <<>>, tags |-> <<>>, category |-> "lifestyle",
      published_date |-> NaiveDate(2000), source |-> "News.com.au"] >>

\* The largest batch of articles.
MaxArticles == 3

\* article.id = article_dict['id']: the i-th of n rows read newest first.
WithId(article, id) ==
  [id |-> id, title |-> article.title, summary |-> article.summary, tags |-> article.tags,
   category |-> article.category, published_date |-> article.published_date,
   source |-> article.source]

\* The batches: up to MaxArticles different articles of the pool, in any order, with
\* unique ids.
ArticleBatches ==
  LET picks == UNION {[1..n -> DOMAIN ArticlePool] : n \in 0..MaxArticles}
      injective == {f \in picks : \A i, j \in DOMAIN f : i # j => f[i] # f[j]}
  IN  {[i \in DOMAIN f |-> WithId(ArticlePool[f[i]], Len(f) - i + 1)] : f \in injective}

ArticleById(id) == CHOOSE a \in Range(articles) : a.id = id

ThresholdChoices == {500, 700}
WeightChoices ==
  {<<600, 250, 150>>, <<300, 300, 300>>, <<1000, 0, 0>>, <<0, 0, 0>>, <<600, 250, 155>>}
MaxResultsChoices == {1, 10}

-----------------------------------------------------------------------------
(* The detector, called directly *)

NoCall == [op |-> "none"]
NoPair == [compared |-> FALSE]
NoMetrics == [returned |-> FALSE]
NoWorkers == <<>>
NoConfig == [status |-> "none"]

ServiceIdle == clusters = <<>> /\ metrics = NoMetrics
PrioritizationIdle == config = NoConfig /\ article_clusters = <<>> /\ stories = <<>>

InitDetector ==
  /\ detector = [status |-> "none"]
  /\ articles \in ArticleBatches
  /\ similarities = <<>>
  /\ call = NoCall
  /\ pair = NoPair
  /\ ServiceIdle
  /\ PrioritizationIdle
  /\ workers = NoWorkers

\* SimilarityDetector(similarity_threshold, title_weight, keyword_weight, time_weight)
Construct(threshold, weights) ==
  /\ detector.status = "none"
  /\ detector' = SimilarityDetector(threshold, weights[1], weights[2], weights[3])
  /\ call' = [op |-> "construct", similarity_threshold |-> threshold, weights |-> weights]
  /\ UNCHANGED <<articles, similarities, pair, serviceVars, prioritizationVars>>
  /\ UNCHANGED workers

\* detector.batch_similarity_detection(articles)
BatchSimilarityDetection ==
  /\ detector.status = "ready"
  /\ call.op = "construct"
  /\ similarities' = batch_similarity_detection(detector, articles)
  /\ call' = [op |-> "batch"]
  /\ UNCHANGED <<detector, articles, pair, serviceVars, prioritizationVars>>
  /\ UNCHANGED workers

\* detector.find_similar_articles(articles[t], articles, max_results)
FindSimilarArticles(t, max_results) ==
  /\ detector.status = "ready"
  /\ call.op = "construct"
  /\ t \in DOMAIN articles
  /\ similarities' = find_similar_articles(detector, articles[t], articles, max_results)
  /\ call' = [op |-> "find", target |-> t, max_results |-> max_results]
  /\ UNCHANGED <<detector, articles, pair, serviceVars, prioritizationVars>>
  /\ UNCHANGED workers

\* detector.calculate_overall_similarity on articles i and j, in both argument orders
CalculateOverallSimilarity(i, j) ==
  /\ detector.status = "ready"
  /\ call.op = "construct"
  /\ i \in DOMAIN articles /\ j \in DOMAIN articles /\ i < j
  /\ pair' = [compared |-> TRUE, i |-> i, j |-> j,
              forward |-> calculate_overall_similarity(detector, articles[i], articles[j]),
              backward |-> calculate_overall_similarity(detector, articles[j], articles[i])]
  /\ call' = [op |-> "pair"]
  /\ UNCHANGED <<detector, articles, similarities, serviceVars, prioritizationVars>>
  /\ UNCHANGED workers

NextDetector ==
  \/ \E threshold \in ThresholdChoices, weights \in WeightChoices :
       Construct(threshold, weights)
  \/ BatchSimilarityDetection
  \/ \E t \in 1..MaxArticles, max_results \in MaxResultsChoices :
       FindSimilarArticles(t, max_results)
  \/ \E i, j \in 1..MaxArticles : CalculateOverallSimilarity(i, j)

SpecDetector == InitDetector /\ [][NextDetector]_vars

-----------------------------------------------------------------------------
(* similarity_service.py *)

None == [none |-> TRUE]

\* _get_article_by_id: the row of the articles table with this id, or None.
GetArticleById(db, article_id) ==
  IF \E a \in Range(db) : a.id = article_id
  THEN CHOOSE a \in Range(db) : a.id = article_id
  ELSE None

\* main_article.title[:50]
TitlePrefix(title) == SubSeq(title, 1, Min(50, Len(title)))

\* _create_article_clusters after the first n similarities: the clusters built and the
\* ids marked as processed.
RECURSIVE ClustersAfter(_, _, _, _)
ClustersAfter(db, sims, n, now) ==
  IF n = 0 THEN [clusters |-> <<>>, processed_articles |-> {}]
  ELSE LET before == ClustersAfter(db, sims, n - 1, now)
           similarity == sims[n]
           main_article == GetArticleById(db, similarity.article_id_1)
           similar_article == GetArticleById(db, similarity.article_id_2)
       IN  IF \/ similarity.article_id_1 \in before.processed_articles
              \/ similarity.article_id_2 \in before.processed_articles
           THEN before
           ELSE IF main_article # None /\ similar_article # None
           THEN [clusters |->
                   Append(before.clusters,
                          [cluster_id |-> <<"cluster", Len(before.clusters) + 1, now>>,
                           main_article_id |-> similarity.article_id_1,
                           similar_articles |-> <<similarity.article_id_2>>,
                           cluster_score |-> similarity.similarity_score,
                           created_at |-> now,
                           summary |-> TitlePrefix(main_article.title),
                           sources_covered |-> <<main_article.source,
                                                 similar_article.source>>]),
                 processed_articles |->
                   before.processed_articles
                     \cup {similarity.article_id_1, similarity.article_id_2}]
           ELSE before

\* A builder that makes a cluster of every edge whose two articles exist, processed or
\* not.
ClustersOfEveryEdge(db, sims, now) ==
  SelectSeq([n \in DOMAIN sims |->
               [cluster_id |-> <<"cluster", n, now>>,
                main_article_id |-> sims[n].article_id_1,
                similar_articles |-> <<sims[n].article_id_2>>,
                cluster_score |-> sims[n].similarity_score]],
            LAMBDA c : GetArticleById(db, c.main_article_id) # None
                         /\ GetArticleById(db, c.similar_articles[1]) # None)

create_article_clusters(db, sims, now) == ClustersAfter(db, sims, Len(sims), now).clusters

\* ArticleCluster.article_count, and the ids it counts.
ArticleCount(cluster) == Len(cluster.similar_articles) + 1
Members(cluster) == {cluster.main_article_id} \cup Range(cluster.similar_articles)

\* The SimilarityMetrics of detect_all_similarities, with the similarities found and
\* the clusters built of them.
Measured(db, sims, built) ==
  [similarities |-> sims, clusters |-> built, ran |-> TRUE,
   metrics |-> [returned |-> TRUE,
                total_comparisons |-> (Len(db) * (Len(db) - 1)) \div 2,
                similar_pairs_found |-> Len(sims),
                clusters_created |-> Len(built),
                average_similarity_score |->
                  IF sims # <<>>
                  THEN SumSeq([i \in DOMAIN sims |-> sims[i].similarity_score]) \div Len(sims)
                  ELSE 0]]

ClusterAndMeasure(db, sims, now) == Measured(db, sims, create_article_clusters(db, sims, now))

\* detect_all_similarities: what it computes from the rows of the articles table.  The
\* service's detector is SimilarityDetector() with the default threshold and weights.
detect_all_similarities(self, db, now) ==
  IF Len(db) < 2
  THEN [similarities |-> <<>>, clusters |-> <<>>, ran |-> FALSE,
        metrics |-> [returned |-> TRUE, total_comparisons |-> 0, similar_pairs_found |-> 0,
                     clusters_created |-> 0, average_similarity_score |-> 0]]
  ELSE ClusterAndMeasure(db, batch_similarity_detection(self, db), now)

\* The clock readings of the model, in minutes.
NowChoices == {2000, 2100}

InitService ==
  /\ detector = SimilarityDetector(DefaultSimilarityThreshold, DefaultTitleWeight,
                                   DefaultKeywordWeight, DefaultTimeWeight)
  /\ articles \in ArticleBatches
  /\ similarities = <<>>
  /\ call = NoCall
  /\ pair = NoPair
  /\ ServiceIdle
  /\ PrioritizationIdle
  /\ workers = NoWorkers

\* What a call of detect_all_similarities leaves behind.
Detected(done) ==
  /\ similarities' = done.similarities
  /\ clusters' = done.clusters
  /\ metrics' = done.metrics
  /\ call' = [op |-> "detect", ran_cluster_builder |-> done.ran]

\* similarity_service.detect_all_similarities()
DetectAllSimilarities(now) ==
  /\ call.op = "none"
  /\ Detected(detect_all_similarities(detector, articles, now))
  /\ UNCHANGED <<detector, articles, pair, prioritizationVars>>
  /\ UNCHANGED workers

NextService == \E now \in NowChoices : DetectAllSimilarities(now)

SpecService == InitService /\ [][NextService]_vars

-----------------------------------------------------------------------------
(* prioritization_models.py *)

\* PrioritizationConfig.__post_init__: the default urgency_keywords list.
DefaultUrgencyKeywords ==
  <<
    <<"b", "r", "e", "a", "k", "i", "n", "g">>, <<"u", "r", "g", "e", "n", "t">>,
    <<"e", "m", "e", "r", "g", "e", "n", "c", "y">>, <<"a", "l", "e", "r", "t">>,
    <<"c", "r", "i", "s", "i", "s">>, <<"d", "e", "v", "e", "l", "o", "p", "i", "n", "g">>,
    <<"l", "i", "v", "e">>, <<"n", "o", "w">>, <<"j", "u", "s", "t", " ", "i", "n">>,
    <<"u", "p", "d", "a", "t", "e">>, <<"c", "r", "a", "s", "h">>,
    <<"p", "l", "u", "n", "g", "e">>, <<"s", "u", "r", "g", "e">>,
    <<"r", "e", "c", "o", "r", "d">>,
    <<"e", "m", "e", "r", "g", "e", "n", "c", "y", " ", "r", "a", "t", "e">>,
    <<"m", "a", "r", "k", "e", "t", " ", "s", "h", "o", "c", "k">>,
    <<"t", "r", "a", "d", "i", "n", "g", " ", "h", "a", "l", "t">>,
    <<"i", "n", "j", "u", "r", "y">>, <<"s", "u", "s", "p", "e", "n", "d", "e", "d">>,
    <<"b", "a", "n", "n", "e", "d">>,
    <<"c", "o", "n", "t", "r", "o", "v", "e", "r", "s", "y">>, <<"s", "h", "o", "c", "k">>,
    <<"u", "p", "s", "e", "t">>, <<"r", "e", "c", "o", "r", "d">>,
    <<"w", "i", "n", "n", "e", "r">>, <<"c", "h", "a", "m", "p", "i", "o", "n">>,
    <<"a", "n", "n", "o", "u", "n", "c", "e", "s">>,
    <<"c", "o", "n", "f", "i", "r", "m", "s">>, <<"r", "e", "v", "e", "a", "l", "s">>,
    <<"a", "d", "m", "i", "t", "s">>, <<"d", "e", "n", "i", "e", "s">>,
    <<"r", "e", "s", "i", "g", "n", "s">>, <<"a", "p", "p", "o", "i", "n", "t", "e", "d">>,
    <<"a", "r", "r", "e", "s", "t", "e", "d">>, <<"c", "h", "a", "r", "g", "e", "d">>
  >>

international_keywords ==
  {
    <<"i", "n", "t", "e", "r", "n", "a", "t", "i", "o", "n", "a", "l">>,
    <<"g", "l", "o", "b", "a", "l">>, <<"w", "o", "r", "l", "d">>,
    <<"o", "v", "e", "r", "s", "e", "a", "s">>, <<"f", "o", "r", "e", "i", "g", "n">>,
    <<"u", "s", "a">>, <<"c", "h", "i", "n", "a">>, <<"e", "u", "r", "o", "p", "e">>,
    <<"a", "s", "i", "a">>, <<"a", "m", "e", "r", "i", "c", "a">>, <<"u", "k">>,
    <<"u", "s", " ">>
  }

national_keywords ==
  {
    <<"a", "u", "s", "t", "r", "a", "l", "i", "a">>,
    <<"a", "u", "s", "t", "r", "a", "l", "i", "a", "n">>,
    <<"n", "a", "t", "i", "o", "n", "a", "l">>, <<"f", "e", "d", "e", "r", "a", "l">>,
    <<"c", "o", "m", "m", "o", "n", "w", "e", "a", "l", "t", "h">>,
    <<"p", "a", "r", "l", "i", "a", "m", "e", "n", "t">>,
    <<"g", "o", "v", "e", "r", "n", "m", "e", "n", "t">>,
    <<"p", "r", "i", "m", "e", " ", "m", "i", "n", "i", "s", "t", "e", "r">>,
    <<"r", "b", "a">>, <<"a", "s", "x">>
  }

state_keywords ==
  {
    <<"n", "s", "w">>, <<"v", "i", "c", "t", "o", "r", "i", "a">>,
    <<"q", "u", "e", "e", "n", "s", "l", "a", "n", "d">>,
    <<"w", "e", "s", "t", "e", "r", "n", " ", "a", "u", "s", "t", "r", "a", "l", "i", "a">>,
    <<"s", "o", "u", "t", "h", " ", "a", "u", "s", "t", "r", "a", "l", "i", "a">>,
    <<"t", "a", "s", "m", "a", "n", "i", "a">>,
    <<"n", "o", "r", "t", "h", "e", "r", "n", " ", "t", "e", "r", "r", "i", "t", "o", "r", "y">>,
    <<"a", "c", "t">>,
    <<"s", "t", "a", "t", "e", " ", "g", "o", "v", "e", "r", "n", "m", "e", "n", "t">>
  }

\* PrioritizationConfig(...) with __post_init__: the configuration built, or the
\* ValueError raised.  The weights are in thousandths; the fields that are not passed
\* keep the defaults of the dataclass.
PrioritizationConfig(breaking_news_weight, coverage_weight, quality_weight, max_sources) ==
  LET total_weight == breaking_news_weight + coverage_weight + quality_weight
  IN  IF OutsideTolerance(total_weight)
      THEN [status |-> "raised", exception |-> "ValueError"]
      ELSE [status |-> "ready",
            breaking_news_weight |-> breaking_news_weight,
            coverage_weight |-> coverage_weight,
            quality_weight |-> quality_weight,
            high_velocity_threshold_minutes |-> 30,
            max_sources |-> max_sources,
            min_content_length |-> 200,
            max_content_length |-> 2000,
            urgency_keywords |-> DefaultUrgencyKeywords]

\* Levels that begin above the thresholds, where the code has them begin at the
\* thresholds.
PriorityLevelAbove(overall_priority_score) ==
  IF overall_priority_score > 800 * Scale THEN "BREAKING"
  ELSE IF overall_priority_score > 600 * Scale THEN "HIGH"
  ELSE IF overall_priority_score > 400 * Scale THEN "MEDIUM"
  ELSE "LOW"

\* StoryMetrics.priority_level, of a score in millionths.
priority_level(overall_priority_score) ==
  IF overall_priority_score >= 800 * Scale THEN "BREAKING"
  ELSE IF overall_priority_score >= 600 * Scale THEN "HIGH"
  ELSE IF overall_priority_score >= 400 * Scale THEN "MEDIUM"
  ELSE "LOW"

\* PrioritizedStory.is_breaking
is_breaking(story) == story.metrics.priority_level = "BREAKING"

-----------------------------------------------------------------------------
(* story_prioritizer.py.  A cluster is a dict with cluster_id, main_article_id,
   cluster_score and similar_articles; an article of it is a dict whose content is
   given by its length, whose published_date is a date string as above, and whose
   classification_confidence is [kind |-> "value", v |-> thousandths], "missing" (no
   such key) or "null" (None). *)

\* keyword in text
Contains(text, keyword) ==
  \E i \in 1..(Len(text) - Len(keyword) + 1) :
    SubSeq(text, i, i + Len(keyword) - 1) = keyword

\* _parse_date: the datetime, or None.
parse_date(date_str) ==
  IF date_str.kind \in {"naive", "aware"}
  THEN [aware |-> date_str.kind = "aware", t |-> date_str.t]
  ELSE None

\* The dates of the articles that _parse_date could parse, in article order.
RECURSIVE ParsedDates(_)
ParsedDates(arts) ==
  IF arts = <<>> THEN <<>>
  ELSE LET pub_date == parse_date(Head(arts).published_date)
       IN  (IF pub_date = None THEN <<>> ELSE <<pub_date>>) \o ParsedDates(Tail(arts))

\* The dates that can be compared with datetime.min and datetime.max.
NaiveTimes(dates) == {d.t : d \in {p \in Range(dates) : ~p.aware}}

LatestOf(naive, now) ==
  IF naive = {} THEN now ELSE CHOOSE t \in naive : \A u \in naive : u <= t

EarliestOf(naive, now) ==
  IF naive = {} THEN now ELSE CHOOSE t \in naive : \A u \in naive : t <= u

\* _get_latest_publish_time: comparing an offset-aware date with datetime.min raises a
\* TypeError that the loop swallows, so only the naive dates count.
get_latest_publish_time(cluster, now) ==
  LatestOf(NaiveTimes(ParsedDates(cluster.similar_articles)), now)

\* _get_earliest_publish_time
get_earliest_publish_time(cluster, now) ==
  EarliestOf(NaiveTimes(ParsedDates(cluster.similar_articles)), now)

\* sorted(times)
SortedTimes(times) ==
  IF \E i, j \in DOMAIN times : times[i].aware # times[j].aware
  THEN [raised |-> "TypeError"]
  ELSE LET order == StableSortDesc([i \in DOMAIN times |-> 0 - times[i].t])
       IN  [raised |-> "none", times |-> [i \in DOMAIN times |-> times[order[i]].t]]

\* _get_all_publish_times: sorted() raises TypeError on a mix of naive and aware dates.
get_all_publish_times(cluster) == SortedTimes(ParsedDates(cluster.similar_articles))

\* _calculate_time_urgency: the age of the latest article, in minutes.
calculate_time_urgency(latest_time, now) ==
  LET minutes_ago == now - latest_time
  IN  IF minutes_ago <= 30 THEN Scale
      ELSE IF minutes_ago <= 60 THEN (9 * Scale) \div 10
      ELSE IF minutes_ago <= 120 THEN (8 * Scale) \div 10
      ELSE IF minutes_ago <= 360 THEN (6 * Scale) \div 10
      ELSE IF minutes_ago <= 1440 THEN (3 * Scale) \div 10
      ELSE Scale \div 10

\* A source velocity that takes 30 minutes for the threshold, whatever is configured.
VelocityOfFixedThreshold(self, publish_times) ==
  IF Len(publish_times) < 2 THEN (5 * Scale) \div 10
  ELSE LET time_span_minutes == publish_times[Len(publish_times)] - publish_times[1]
       IN  IF time_span_minutes <= 30 THEN Scale
           ELSE IF time_span_minutes <= 60 THEN (8 * Scale) \div 10
           ELSE IF time_span_minutes <= 180 THEN (6 * Scale) \div 10
           ELSE IF time_span_minutes <= 360 THEN (4 * Scale) \div 10
           ELSE (2 * Scale) \div 10

\* _calculate_source_velocity
calculate_source_velocity(self, publish_times) ==
  IF Len(publish_times) < 2 THEN (5 * Scale) \div 10
  ELSE LET time_span_minutes == publish_times[Len(publish_times)] - publish_times[1]
       IN  IF time_span_minutes <= self.high_velocity_threshold_minutes THEN Scale
           ELSE IF time_span_minutes <= 60 THEN (8 * Scale) \div 10
           ELSE IF time_span_minutes <= 180 THEN (6 * Scale) \div 10
           ELSE IF time_span_minutes <= 360 THEN (4 * Scale) \div 10
           ELSE (2 * Scale) \div 10

\* f"{title} {summary}" in lower case.
TitleAndSummary(article) == Lower(article.title \o <<" ">> \o article.summary)

\* The bonus of _detect_urgency_keywords for the keywords found.
UrgencyBonus(found_keywords) ==
  [keywords |-> found_keywords,
   bonus |-> IF Cardinality(found_keywords) >= 3 THEN (3 * Scale) \div 10
             ELSE IF Cardinality(found_keywords) >= 2 THEN (2 * Scale) \div 10
             ELSE IF Cardinality(found_keywords) >= 1 THEN Scale \div 10
             ELSE 0]

\* _detect_urgency_keywords
detect_urgency_keywords(self, cluster) ==
  UrgencyBonus({self.urgency_keywords[k] : k \in
                  {k \in DOMAIN self.urgency_keywords :
                     \E i \in DOMAIN cluster.similar_articles :
                       Contains(TitleAndSummary(cluster.similar_articles[i]),
                                Lower(self.urgency_keywords[k]))}})

\* A breaking news score without the cap at 1.0.
BreakingScoreUncapped(time_urgency, source_velocity, urgency, latest_time) ==
  [raised |-> "none",
   score |-> (time_urgency * 6 + source_velocity * 4) \div 10 + urgency.bonus,
   time_urgency |-> time_urgency,
   source_velocity |-> source_velocity,
   urgency_keywords_found |-> urgency.keywords,
   urgency_bonus |-> urgency.bonus,
   latest_publish_time |-> latest_time]

\* The end of calculate_breaking_news_score: the score and the details.
BreakingScore(time_urgency, source_velocity, urgency, latest_time) ==
  [raised |-> "none",
   score |-> Min(Scale, (time_urgency * 6 + source_velocity * 4) \div 10 + urgency.bonus),
   time_urgency |-> time_urgency,
   source_velocity |-> source_velocity,
   urgency_keywords_found |-> urgency.keywords,
   urgency_bonus |-> urgency.bonus,
   latest_publish_time |-> latest_time]

BreakingOfTimes(self, cluster, now, latest_time, publish_times) ==
  IF publish_times.raised # "none" THEN [raised |-> publish_times.raised]
  ELSE BreakingScore(calculate_time_urgency(latest_time, now),
                     calculate_source_velocity(self, publish_times.times),
                     detect_urgency_keywords(self, cluster),
                     latest_time)

\* calculate_breaking_news_score
calculate_breaking_news_score(self, cluster, now) ==
  BreakingOfTimes(self, cluster, now, get_latest_publish_time(cluster, now),
                  get_all_publish_times(cluster))

\* _get_unique_sources
get_unique_sources(cluster) ==
  {a.source : a \in {b \in Range(cluster.similar_articles) : b.source # ""}}

\* _determine_geographic_scope: the text is " title summary" of every article.
RECURSIVE AllText(_)
AllText(arts) ==
  IF arts = <<>> THEN <<>>
  ELSE <<" ">> \o Head(arts).title \o <<" ">> \o Head(arts).summary \o AllText(Tail(arts))

ScopeOfText(text_lower) ==
  IF \E keyword \in international_keywords : Contains(text_lower, keyword)
  THEN "international"
  ELSE IF \E keyword \in national_keywords : Contains(text_lower, keyword)
  THEN "national"
  ELSE IF \E keyword \in state_keywords : Contains(text_lower, keyword)
  THEN "state"
  ELSE "local"

determine_geographic_scope(cluster) == ScopeOfText(Lower(AllText(cluster.similar_articles)))

\* scope_scores.get(scope, 0.4)
ScopeScore(scope) ==
  CASE scope = "international" -> Scale
    [] scope = "national" -> (8 * Scale) \div 10
    [] scope = "state" -> (6 * Scale) \div 10
    [] OTHER -> (4 * Scale) \div 10

\* _calculate_geographic_scope
calculate_geographic_scope(cluster) == ScopeScore(determine_geographic_scope(cluster))

\* The end of calculate_coverage_score: the score and the details.
CoverageScore(sources, source_count_score, similarity_confidence, scope_score, scope) ==
  [raised |-> "none",
   score |-> (source_count_score * 5 + similarity_confidence * 3 + scope_score * 2) \div 10,
   source_count |-> Cardinality(sources),
   sources |-> sources,
   similarity_confidence |-> similarity_confidence,
   geographic_scope |-> scope,
   scope_score |-> scope_score]

\* calculate_coverage_score
calculate_coverage_score(self, cluster) ==
  IF self.max_sources = 0 THEN [raised |-> "ZeroDivisionError"]
  ELSE CoverageScore(get_unique_sources(cluster),
                     Min(Scale, Frac(Cardinality(get_unique_sources(cluster)),
                                     self.max_sources)),
                     cluster.cluster_score,
                     calculate_geographic_scope(cluster),
                     determine_geographic_scope(cluster))

\* _calculate_source_credibility
SourceCredibility(source) ==
  CASE source = "ABC News" -> 950
    [] source = "The Guardian AU" -> 900
    [] source = "Sydney Morning Herald" -> 850
    [] source = "News.com.au" -> 750
    [] OTHER -> 600

RECURSIVE SumOver(_, _)
SumOver(set, f) ==
  IF set = {} THEN 0
  ELSE LET x == CHOOSE y \in set : TRUE IN f[x] + SumOver(set \ {x}, f)

calculate_source_credibility(sources) ==
  IF sources = {} THEN (5 * Scale) \div 10
  ELSE SumOver(sources, [x \in sources |-> SourceCredibility(x)]) \div Cardinality(sources)

\* The content scores of calculate_quality_score: one for each article whose content
\* is at least min_content_length long.
RECURSIVE ContentScores(_, _)
ContentScores(self, arts) ==
  IF arts = <<>> THEN <<>>
  ELSE LET content_length == Head(arts).content_length
       IN  (IF content_length >= self.min_content_length
            THEN <<Min(Scale, Frac(content_length - self.min_content_length,
                                   self.max_content_length - self.min_content_length))>>
            ELSE <<>>)
           \o ContentScores(self, Tail(arts))

\* article.get('classification_confidence', 0.0)
ConfidenceOrDefault(article) ==
  IF article.classification_confidence.kind = "missing" THEN 0
  ELSE article.classification_confidence.v

\* The confidences above zero that calculate_quality_score adds up.
RECURSIVE ValidConfidences(_)
ValidConfidences(arts) ==
  IF arts = <<>> THEN <<>>
  ELSE (IF ConfidenceOrDefault(Head(arts)) > 0 THEN <<ConfidenceOrDefault(Head(arts))>>
        ELSE <<>>)
       \o ValidConfidences(Tail(arts))

\* sum(values) / len(values) if values else 0.0
Average(values) == IF values # <<>> THEN SumSeq(values) \div Len(values) ELSE 0

\* The end of calculate_quality_score: the score and the details.
QualityScore(avg_content_depth, avg_classification_conf, credibility_score, articles_analyzed) ==
  [raised |-> "none",
   empty |-> FALSE,
   score |-> (avg_content_depth * 4 + avg_classification_conf * 4
              + credibility_score * 2) \div 10,
   content_depth_score |-> avg_content_depth,
   classification_confidence |-> avg_classification_conf,
   credibility_score |-> credibility_score,
   articles_analyzed |-> articles_analyzed]

\* calculate_quality_score
calculate_quality_score(self, cluster) ==
  IF cluster.similar_articles = <<>>
  THEN [raised |-> "none", score |-> 0, empty |-> TRUE]
  ELSE IF /\ self.max_content_length = self.min_content_length
          /\ \E i \in DOMAIN cluster.similar_articles :
               cluster.similar_articles[i].content_length >= self.min_content_length
  THEN [raised |-> "ZeroDivisionError"]
  ELSE IF \E i \in DOMAIN cluster.similar_articles :
            cluster.similar_articles[i].classification_confidence.kind = "null"
  THEN [raised |-> "TypeError"]    \* None > 0
  ELSE QualityScore(Average(ContentScores(self, cluster.similar_articles)),
                    Average(ValidConfidences(cluster.similar_articles)),
                    calculate_source_credibility(get_unique_sources(cluster)),
                    Len(cluster.similar_articles))

\* The recency bonus of _select_representative_article, in millionths.  Subtracting an
\* offset-aware date from datetime.now() raises a TypeError that is passed over.
RecencyBonus(pub_date, now) ==
  IF pub_date = None THEN 0
  ELSE IF pub_date.aware THEN 0
  ELSE IF now - pub_date.t < 120 THEN 400 * Scale
  ELSE IF now - pub_date.t < 360 THEN 200 * Scale
  ELSE 0

\* The score _select_representative_article gives an article, in millionths.
RepresentativeScore(article, now) ==
  (IF article.content_length > 500 THEN 300 * Scale ELSE 0)
  + ConfidenceOrDefault(article) * 300
  + RecencyBonus(parse_date(article.published_date), now)

\* if score > best_score: best_score = score; best_article = article
BetterOf(before, n, score) ==
  IF score > before.score THEN [index |-> n, score |-> score] ELSE before

\* The loop of _select_representative_article over the first n articles: the index of
\* best_article and best_score.
RECURSIVE BestAfter(_, _, _)
BestAfter(arts, n, now) ==
  IF n = 0 THEN [index |-> 1, score |-> 0]
  ELSE BetterOf(BestAfter(arts, n - 1, now), n, RepresentativeScore(arts[n], now))

\* _select_representative_article: the article chosen, or {} for a cluster without
\* articles.
EmptyDict == [empty |-> TRUE]

select_representative_article(cluster, now) ==
  IF cluster.similar_articles = <<>> THEN EmptyDict
  ELSE cluster.similar_articles[BestAfter(cluster.similar_articles,
                                          Len(cluster.similar_articles), now).index]

\* The PrioritizedStory of a cluster, with its StoryMetrics.
PrioritizedStory(cluster, now, breaking, coverage, quality, overall_score, representative_article) ==
  [raised |-> "none",
   story_id |-> cluster.cluster_id,
   main_article_id |-> cluster.main_article_id,
   title |-> IF representative_article = EmptyDict THEN "Unknown Title"
             ELSE representative_article.title,
   category |-> IF representative_article = EmptyDict THEN "general"
                ELSE representative_article.category,
   sources |-> coverage.sources,
   article_count |-> Len(cluster.similar_articles),
   latest_published |-> breaking.latest_publish_time,
   first_published |-> get_earliest_publish_time(cluster, now),
   metrics |->
     [breaking_news_score |-> breaking.score,
      coverage_score |-> coverage.score,
      quality_score |-> quality.score,
      overall_priority_score |-> overall_score,
      priority_level |-> priority_level(overall_score),
      time_urgency |-> breaking.time_urgency,
      source_velocity |-> breaking.source_velocity,
      urgency_keywords_found |-> breaking.urgency_keywords_found,
      source_count |-> coverage.source_count,
      similarity_confidence |-> coverage.similarity_confidence,
      geographic_scope |-> coverage.geographic_scope,
      content_depth_score |-> IF quality.empty THEN 0 ELSE quality.content_depth_score,
      classification_confidence |-> IF quality.empty THEN 0
                                    ELSE quality.classification_confidence],
   similar_articles |-> cluster.similar_articles,
   representative_article |-> representative_article]

\* The story of a cluster whose three scores are given, or the exception one of them
\* raised.
ScoredStory(self, cluster, now, breaking, coverage, quality) ==
  IF breaking.raised # "none" THEN [raised |-> breaking.raised]
  ELSE IF coverage.raised # "none" THEN [raised |-> coverage.raised]
  ELSE IF quality.raised # "none" THEN [raised |-> quality.raised]
  ELSE PrioritizedStory(cluster, now, breaking, coverage, quality,
                        breaking.score * self.breaking_news_weight
                          + coverage.score * self.coverage_weight
                          + quality.score * self.quality_weight,
                        select_representative_article(cluster, now))

\* The body of the loop of prioritize_stories for one cluster: the PrioritizedStory
\* appended, or the exception that the loop logs before it continues.
PrioritizeCluster(self, cluster, now) ==
  ScoredStory(self, cluster, now,
              calculate_breaking_news_score(self, cluster, now),
              calculate_coverage_score(self, cluster),
              calculate_quality_score(self, cluster))

\* prioritized_stories.append(story), unless the cluster raised.
AppendStory(story) == IF story.raised = "none" THEN <<story>> ELSE <<>>

\* The loop of prioritize_stories: the stories appended, in the order of the clusters.
RECURSIVE PrioritizedUnsorted(_, _, _)
PrioritizedUnsorted(self, cluster_list, now) ==
  IF cluster_list = <<>> THEN <<>>
  ELSE AppendStory(PrioritizeCluster(self, Head(cluster_list), now))
       \o PrioritizedUnsorted(self, Tail(cluster_list), now)

\* prioritized_stories.sort(key=lambda x: x.metrics.overall_priority_score, reverse=True)
SortByPriority(prioritized_stories) ==
  LET order == StableSortDesc([i \in DOMAIN prioritized_stories |->
                                 prioritized_stories[i].metrics.overall_priority_score])
  IN  [i \in DOMAIN prioritized_stories |-> prioritized_stories[order[i]]]

\* The loop of prioritize_stories without its try and except: the first cluster that
\* raises ends the call, and no story is returned.
PrioritizeWithoutCatch(self, cluster_list, now) ==
  IF \E k \in DOMAIN cluster_list : PrioritizeCluster(self, cluster_list[k], now).raised # "none"
  THEN <<>>
  ELSE SortByPriority(PrioritizedUnsorted(self, cluster_list, now))

\* prioritize_stories
prioritize_stories(self, cluster_list, now) ==
  SortByPriority(PrioritizedUnsorted(self, cluster_list, now))

-----------------------------------------------------------------------------
(* The prioritization engine at work: a PrioritizationConfig is constructed, and an
   engine built on it ranks a list of cluster dicts. *)

ClusterArticle(id, title, summary, content_length, source, published_date, confidence) ==
  [id |-> id, title |-> title, summary |-> summary, category |-> "news",
   content_length |-> content_length, source |-> source,
   published_date |-> published_date, classification_confidence |-> confidence]

Confidence(v) == [kind |-> "value", v |-> v]
NoConfidence == [kind |-> "missing", v |-> 0]
NullConfidence == [kind |-> "null", v |-> 0]

ArticleTideRises ==
  ClusterArticle(1, TitleTideRises, <<>>, 300, "ABC News", NaiveDate(1990), Confidence(800))
ArticleTideRisesLive ==
  ClusterArticle(2, TitleTideRisesLive, SummaryIn2024, 1200, "The Guardian AU",
                 NaiveDate(1970), Confidence(900))
ArticleDiet ==
  ClusterArticle(4, TitleDiet, <<>>, 100, "Sydney Morning Herald", GarbageDate, NoConfidence)
ArticleTide ==
  ClusterArticle(5, TitleTide, <<>>, 2500, "News.com.au", AwareDate(1900), Confidence(700))
ArticleOldTide ==
  ClusterArticle(3, TitleTide, <<>>, 2500, "News.com.au", NaiveDate(0), Confidence(700))
ArticleUnclassified ==
  ClusterArticle(6, TitleDiet, <<>>, 600, "Sydney Morning Herald", NaiveDate(1950),
                 NullConfidence)

\* Cluster dicts as get_article_clusters and _create_individual_clusters hand them
\* over.  The first two differ in their cluster_id only; the fourth mixes a naive and
\* an offset-aware date; the fifth has no articles; the sixth is a day old;
\* the last holds a row whose classification_confidence column is NULL.
ClusterPool ==
  << [cluster_id |-> "cluster_1", main_article_id |-> 1, cluster_score |-> 850,
      similar_articles |-> <<ArticleTideRises, ArticleTideRisesLive>>],
     [cluster_id |-> "cluster_2", main_article_id |-> 1, cluster_score |-> 850,
      similar_articles |-> <<ArticleTideRises, ArticleTideRisesLive>>],
     [cluster_id |-> "individual_4", main_article_id |-> 4, cluster_score |-> Scale,
      similar_articles |-> <<ArticleDiet>>],
     [cluster_id |-> "cluster_3", main_article_id |-> 5, cluster_score |-> 720,
      similar_articles |-> <<ArticleTide, ArticleTideRises>>],
     [cluster_id |-> "cluster_4", main_article_id |-> 0, cluster_score |-> 0,
      similar_articles |-> <<>>],
     [cluster_id |-> "individual_3", main_article_id |-> 3, cluster_score |-> Scale,
      similar_articles |-> <<ArticleOldTide>>],
     [cluster_id |-> "cluster_5", main_article_id |-> 1, cluster_score |-> 760,
      similar_articles |-> <<ArticleTideRises, ArticleUnclassified>>] >>

MaxClusters == 3

\* The lists of up to MaxClusters different clusters of the pool, in any order.
ClusterLists ==
  UNION {{[i \in 1..n |-> ClusterPool[f[i]]] :
            f \in {g \in [1..n -> DOMAIN ClusterPool] :
                     \A i, j \in 1..n : i # j => g[i] # g[j]}} :
         n \in 0..MaxClusters}

\* The three weights a PrioritizationConfig is given: the defaults, other weights that
\* sum to 1.0, sums inside, on and outside the tolerance, a sum of 0.5, and a sum
\* inside the tolerance that lies on the breaking score alone.
PriorityWeightChoices ==
  {<<400, 350, 250>>, <<500, 300, 200>>, <<1000, 0, 0>>, <<400, 350, 255>>,
   <<400, 350, 260>>, <<400, 350, 265>>, <<500, 0, 0>>, <<1005, 0, 0>>}

MaxSourcesChoices == {0, 2, 4}

InitPrioritize ==
  /\ config = NoConfig
  /\ article_clusters \in ClusterLists
  /\ stories = <<>>
  /\ call = NoCall
  /\ detector = [status |-> "none"]
  /\ articles = <<>>
  /\ similarities = <<>>
  /\ pair = NoPair
  /\ ServiceIdle
  /\ workers = NoWorkers

\* PrioritizationConfig(breaking_news_weight=..., coverage_weight=..., quality_weight=...,
\* max_sources=...)
ConstructConfig(weights, max_sources) ==
  /\ config.status = "none"
  /\ call = NoCall
  /\ config' = PrioritizationConfig(weights[1], weights[2], weights[3], max_sources)
  /\ call' = [op |-> "config", weights |-> weights, max_sources |-> max_sources]
  /\ UNCHANGED <<article_clusters, stories>>
  /\ UNCHANGED detectorVarsButCall
  /\ UNCHANGED serviceVars
  /\ UNCHANGED workers

\* StoryPrioritizationEngine(config).prioritize_stories(article_clusters), called at
\* the time `now`.
PrioritizeStories(now) ==
  /\ config.status = "ready"
  /\ call.op = "config"
  /\ stories' = prioritize_stories(config, article_clusters, now)
  /\ call' = [op |-> "prioritize", now |-> now]
  /\ UNCHANGED <<config, article_clusters>>
  /\ UNCHANGED detectorVarsButCall
  /\ UNCHANGED serviceVars
  /\ UNCHANGED workers

NextPrioritize ==
  \/ \E weights \in PriorityWeightChoices, max_sources \in MaxSourcesChoices :
       ConstructConfig(weights, max_sources)
  \/ \E now \in NowChoices : PrioritizeStories(now)

SpecPrioritize == InitPrioritize /\ [][NextPrioritize]_vars

-----------------------------------------------------------------------------
(* batch_similarity_detection, its (i, j) pairs divided among workers *)

\* The index pairs the two loops of batch_similarity_detection visit, in their order.
RECURSIVE PairsFrom(_, _, _)
PairsFrom(n, i, j) ==
  IF i >= n THEN <<>>
  ELSE IF j > n THEN PairsFrom(n, i + 1, i + 2)
  ELSE <<<<i, j>>>> \o PairsFrom(n, i, j + 1)

IndexPairs(n) == PairsFrom(n, 1, 2)

\* A loop body that compares the articles of one source too.
CompareAnySource(self, arts, p) ==
  AppendIfSimilar(self, calculate_overall_similarity(self, arts[p[1]], arts[p[2]]))

\* The body of the inner loop for the pair p = (i, j): what it appends.  It reads the
\* articles and the detector and assigns nothing but its own local variables.
CompareAt(self, arts, p) ==
  IF arts[p[1]].source = arts[p[2]].source THEN <<>>
  ELSE AppendIfSimilar(self, calculate_overall_similarity(self, arts[p[1]], arts[p[2]]))

Workers == {"w1", "w2"}

\* A worker that is given the pairs `pairs` and has done none of them.
WorkerWith(pairs) == [pairs |-> pairs, next |-> 1, results |-> <<>>]

\* The ways to divide the pairs of a batch of n articles among the workers.
Partitions(n) ==
  {[w \in Workers |->
      WorkerWith(SelectSeq(IndexPairs(n),
                           LAMBDA p : assignment[CHOOSE k \in DOMAIN IndexPairs(n) :
                                                   IndexPairs(n)[k] = p] = w))] :
     assignment \in [DOMAIN IndexPairs(n) -> Workers]}

\* The batches the workers are given: articles of the pool, in the order of the pool.
WorkerBatches ==
  LET picks == UNION {[1..n -> DOMAIN ArticlePool] : n \in 0..MaxArticles}
      ascending == {f \in picks : \A i, j \in DOMAIN f : i < j => f[i] < f[j]}
  IN  {[i \in DOMAIN f |-> WithId(ArticlePool[f[i]], Len(f) - i + 1)] : f \in ascending}

\* One detector, built before the workers start, that all of them share.
InitWorkers ==
  /\ detector \in {SimilarityDetector(threshold, DefaultTitleWeight, DefaultKeywordWeight,
                                      DefaultTimeWeight) : threshold \in ThresholdChoices}
  /\ articles \in WorkerBatches
  /\ workers \in Partitions(Len(articles))
  /\ similarities = <<>>
  /\ call = NoCall
  /\ pair = NoPair
  /\ ServiceIdle
  /\ PrioritizationIdle

\* A worker runs the loop body on the next of its pairs.
Compare(w) ==
  /\ call = NoCall
  /\ workers[w].next <= Len(workers[w].pairs)
  /\ workers' = [workers EXCEPT
                   ![w].results = @ \o CompareAt(detector, articles,
                                                 workers[w].pairs[workers[w].next]),
                   ![w].next = @ + 1]
  /\ UNCHANGED <<detector, articles, similarities, call, pair>>
  /\ UNCHANGED <<serviceVars, prioritizationVars>>

\* The results of the workers, concatenated once all of them have finished.
Collect ==
  /\ call = NoCall
  /\ \A w \in Workers : workers[w].next > Len(workers[w].pairs)
  /\ similarities' = workers["w1"].results \o workers["w2"].results
  /\ call' = [op |-> "collect"]
  /\ UNCHANGED <<detector, articles, pair, workers>>
  /\ UNCHANGED <<serviceVars, prioritizationVars>>

NextWorkers ==
  \/ \E w \in Workers : Compare(w)
  \/ Collect

SpecWorkers == InitWorkers /\ [][NextWorkers]_vars

-----------------------------------------------------------------------------
(* enhanced_news_pipeline.py *)

\* EnhancedNewsPipelineService.__init__: self.prioritization_engine =
\* StoryPrioritizationEngine(), the engine with PrioritizationConfig().
DefaultPrioritizationEngine == PrioritizationConfig(400, 350, 250, 4)

\* _get_stored_similarities: a placeholder that returns no similarity.
get_stored_similarities == <<>>

\* get_article_clusters: the clusters built of the stored similarities, as dicts.
get_article_clusters(db, now) ==
  LET built == create_article_clusters(db, get_stored_similarities, now)
  IN  [k \in DOMAIN built |->
         [cluster_id |-> built[k].cluster_id,
          main_article |-> GetArticleById(db, built[k].main_article_id),
          similar_articles |->
            SelectSeq([i \in DOMAIN built[k].similar_articles |->
                         GetArticleById(db, built[k].similar_articles[i])],
                      LAMBDA article : article # None),
          summary |-> built[k].summary,
          sources_covered |-> built[k].sources_covered,
          article_count |-> ArticleCount(built[k]),
          cluster_score |-> built[k].cluster_score]]

\* _create_individual_clusters: one cluster for each of the 50 most recent rows.
create_individual_clusters(recent_articles) ==
  [i \in 1..Min(50, Len(recent_articles)) |->
     [cluster_id |-> <<"single", recent_articles[i].id>>,
      main_article_id |-> recent_articles[i].id,
      cluster_score |-> Scale,
      summary |-> recent_articles[i].summary,
      sources_covered |-> <<recent_articles[i].source>>,
      similar_articles |-> <<recent_articles[i]>>,
      main_title |-> recent_articles[i].title,
      main_source |-> recent_articles[i].source]]

\* round(x, 3) of a score in millionths, in thousandths.
RoundToThousandths(x) == (x + 500) \div Scale

\* _story_to_dict, without the two description strings.  The three component scores
\* are in thousandths already.
story_to_dict(story) ==
  [story_id |-> story.story_id,
   main_article_id |-> story.main_article_id,
   title |-> story.title,
   category |-> story.category,
   sources |-> story.sources,
   article_count |-> story.article_count,
   latest_published |-> story.latest_published,
   first_published |-> story.first_published,
   priority_level |-> story.metrics.priority_level,
   priority_score |-> RoundToThousandths(story.metrics.overall_priority_score),
   breaking_news_score |-> story.metrics.breaking_news_score,
   coverage_score |-> story.metrics.coverage_score,
   quality_score |-> story.metrics.quality_score,
   is_breaking |-> is_breaking(story),
   similar_articles |-> story.similar_articles,
   representative_article |-> story.representative_article,
   urgency_keywords |-> story.metrics.urgency_keywords_found,
   geographic_scope |-> story.metrics.geographic_scope]

\* The end of _prioritization_phase: the stories of the engine, and the dicts returned.
PhaseResults(cluster_list, prioritized_stories) ==
  [clusters |-> cluster_list,
   stories |-> prioritized_stories,
   prioritized_stories |->
     [i \in DOMAIN prioritized_stories |-> story_to_dict(prioritized_stories[i])],
   top_stories |->
     [i \in 1..Min(10, Len(prioritized_stories)) |-> story_to_dict(prioritized_stories[i])]]

\* self.prioritization_engine.prioritize_stories(clusters)
PrioritizeClusters(self, cluster_list, now) ==
  PhaseResults(cluster_list, prioritize_stories(self.prioritization_engine, cluster_list, now))

\* clusters, or the individual clusters when there are none.
ClustersOrIndividual(found, recent_articles) ==
  IF found = <<>> THEN create_individual_clusters(recent_articles) ELSE found

\* _prioritization_phase(config): the body never reads its parameter `config`, here
\* given_config.
prioritization_phase(self, given_config, recent_articles, now) ==
  IF recent_articles = <<>>
  THEN [clusters |-> <<>>, stories |-> <<>>, prioritized_stories |-> <<>>,
        top_stories |-> <<>>]
  ELSE PrioritizeClusters(self,
                          ClustersOrIndividual(get_article_clusters(recent_articles, now),
                                               recent_articles),
                          now)

\* EnhancedNewsPipelineService(db): the similarity service has SimilarityDetector().
EnhancedNewsPipelineService ==
  [prioritization_engine |-> DefaultPrioritizationEngine,
   similarity_detector |-> SimilarityDetector(DefaultSimilarityThreshold, DefaultTitleWeight,
                                              DefaultKeywordWeight, DefaultTimeWeight)]

\* _dict_to_article: the NewsArticle of a row; the rows of the model have no tags.
dict_to_article(article_dict) ==
  [id |-> article_dict.id, title |-> article_dict.title, summary |-> article_dict.summary,
   tags |-> <<>>, category |-> article_dict.category,
   published_date |-> article_dict.published_date, source |-> article_dict.source]

\* _get_recent_articles
get_recent_articles(rows) == [i \in DOMAIN rows |-> dict_to_article(rows[i])]

\* _similarity_detection_phase: what detect_all_similarities(hours_back=2) computes.
similarity_detection_phase(self, rows, now) ==
  detect_all_similarities(self.similarity_detector, get_recent_articles(rows), now)

\* What the similarity phase leaves behind: the metrics it reports, and the
\* similarities and clusters that detect_all_similarities held in its local variables.
SimilarityPhase(done) ==
  /\ similarities' = done.similarities
  /\ clusters' = done.clusters
  /\ metrics' = done.metrics

\* The rows of the articles table after the extraction phase: at most MaxRows of them.
MaxRows == 2

RowPool == <<ArticleTideRises, ArticleTideRisesLive, ArticleOldTide, ArticleTide>>

RowBatches ==
  UNION {{[i \in 1..n |-> RowPool[f[i]]] :
            f \in {g \in [1..n -> DOMAIN RowPool] : \A i, j \in 1..n : i # j => g[i] # g[j]}} :
         n \in 0..MaxRows}

InitPipeline ==
  /\ config = NoConfig
  /\ article_clusters = <<>>
  /\ stories = <<>>
  /\ call = NoCall
  /\ detector = [status |-> "none"]
  /\ articles \in RowBatches
  /\ similarities = <<>>
  /\ pair = NoPair
  /\ ServiceIdle
  /\ workers = NoWorkers

\* What run_enhanced_extraction leaves behind: the clusters it built, the stories of
\* its engine and the dicts it returns.
Extracted(done, now) ==
  /\ article_clusters' = done.clusters
  /\ stories' = done.stories
  /\ call' = [op |-> "pipeline", now |-> now,
              prioritized_stories |-> done.prioritized_stories,
              top_stories |-> done.top_stories]

\* run_enhanced_extraction(prioritization_config=config), at the time `now`: the third
\* second and the third phase over the rows the first phase left in the table.
RunEnhancedExtraction(now) ==
  /\ config.status = "ready"
  /\ call.op = "config"
  /\ SimilarityPhase(similarity_detection_phase(EnhancedNewsPipelineService, articles, now))
  /\ Extracted(prioritization_phase(EnhancedNewsPipelineService, config, articles, now), now)
  /\ UNCHANGED <<config, detector, articles, pair>>
  /\ UNCHANGED workers

NextPipeline ==
  \/ \E weights \in PriorityWeightChoices, max_sources \in MaxSourcesChoices :
       ConstructConfig(weights, max_sources)
  \/ \E now \in NowChoices : RunEnhancedExtraction(now)

SpecPipeline == InitPipeline /\ [][NextPipeline]_vars

-----------------------------------------------------------------------------
(* The functions of text_utils.py, the detector and the engine, called directly *)

EmptyDate == [kind |-> "empty", t |-> 0]

\* Publish times in minutes, on both sides of the 6, 24, 48 and 168 hour windows.
MinuteChoices == {0, 359, 360, 361, 1440, 1441, 2880, 2881, 10080, 10081}

DateChoices ==
  {NaiveDate(t) : t \in MinuteChoices} \cup {AwareDate(t) : t \in MinuteChoices}
    \cup {GarbageDate, EmptyDate}

InitFunctions ==
  /\ call = NoCall
  /\ detector = [status |-> "none"]
  /\ articles = <<>>
  /\ similarities = <<>>
  /\ pair = NoPair
  /\ workers = NoWorkers
  /\ ServiceIdle
  /\ PrioritizationIdle

\* A call of a function: its arguments and what it returned.
Called(record) ==
  /\ call = NoCall
  /\ call' = record
  /\ UNCHANGED <<detector, articles, similarities, pair, workers>>
  /\ UNCHANGED <<serviceVars, prioritizationVars>>

\* calculate_time_similarity(date1_str, date2_str)
CalculateTimeSimilarity(date1_str, date2_str) ==
  Called([op |-> "calculate_time_similarity", date1_str |-> date1_str,
          date2_str |-> date2_str,
          returned |-> calculate_time_similarity(date1_str, date2_str)])

TitleTideFalls == <<"T", "i", "d", "e", " ", "f", "a", "l", "l", "s">>
TitleThe == <<"T", "h", "e">>

\* Titles: with shared and unshared words, of stop words only, and empty.
TitleChoices ==
  {TitleTideRises, TitleTideRisesLive, TitleTideFalls, TitleTide, TitleDiet, TitleThe, <<>>}

\* detector.calculate_title_similarity(title1, title2)
CalculateTitleSimilarity(title1, title2) ==
  Called([op |-> "calculate_title_similarity", title1 |-> title1, title2 |-> title2,
          returned |-> calculate_title_similarity(title1, title2)])

WordFalls == <<"f", "a", "l", "l", "s">>
WordRises == <<"R", "i", "s", "e", "s">>
WordYear == <<"2", "0", "2", "4">>
WordUp == <<"u", "p", "!">>

\* Texts: with a word that occurs twice, words that occur once, a stop word, a number
\* and a short word, in several orders; and the empty text.
TextChoices ==
  {Join(<<TitleTide, WordRises, TitleTide, WordFalls, WordYear, TitleThe>>),
   Join(<<WordRises, TitleTide, WordFalls, TitleTide, WordUp>>),
   Join(<<WordFalls, WordUp, WordRises, TitleDiet, TitleDiet, TitleTide, TitleTide>>),
   Join(<<TitleThe, WordYear>>),
   TitleTideRisesLive,
   <<>>}

MinLengthChoices == {1, DefaultMinLength, 5}
MaxWordsChoices == {0, 1, 2, 3, DefaultMaxWords}

\* extract_keywords(text, min_length, max_words)
ExtractKeywords(text, min_length, max_words) ==
  Called([op |-> "extract_keywords", text |-> text, min_length |-> min_length,
          max_words |-> max_words,
          returned |-> extract_keywords(text, min_length, max_words)])

TitleUrgentAlert == <<"U", "r", "g", "e", "n", "t", " ", "a", "l", "e", "r", "t">>
SummaryBreakingUpdate ==
  <<"B", "r", "e", "a", "k", "i", "n", "g", ":", " ", "l", "i", "v", "e", " ", "u", "p", "d", "a", "t", "e">>

ArticleUrgentAlert ==
  ClusterArticle(7, TitleUrgentAlert, <<>>, 100, "News.com.au", NaiveDate(1700),
                 Confidence(600))
ArticleBreakingUpdate ==
  ClusterArticle(8, TitleUrgentAlert, SummaryBreakingUpdate, 1200, "ABC News",
                 NaiveDate(1880), Confidence(900))

\* The articles of the clusters that are scored directly: with no, one, two and five
\* urgency keywords, of several ages and content lengths, with and without a date.
ScoredArticlePool ==
  <<ArticleTideRises, ArticleTideRisesLive, ArticleOldTide, ArticleDiet,
    ArticleUrgentAlert, ArticleBreakingUpdate,
    ArticleTide>>

\* The largest cluster that is scored directly.
MaxMembers == 2

ScoredClusters ==
  UNION {{[cluster_id |-> "cluster_1", main_article_id |-> 1, cluster_score |-> 850,
           similar_articles |-> [i \in 1..n |-> ScoredArticlePool[f[i]]]] :
            f \in {g \in [1..n -> DOMAIN ScoredArticlePool] :
                     \A i, j \in 1..n : i # j => g[i] # g[j]}} :
         n \in 0..MaxMembers}

\* StoryPrioritizationEngine().calculate_breaking_news_score(cluster), at the time `now`
CalculateBreakingNewsScore(cluster, now) ==
  Called([op |-> "calculate_breaking_news_score", cluster |-> cluster, now |-> now,
          returned |-> calculate_breaking_news_score(DefaultPrioritizationEngine, cluster, now)])

\* Configured values of high_velocity_threshold_minutes: the default and two others.
VelocityThresholdChoices == {30, 45, 400}

\* Spreads in minutes, on both sides of the thresholds and of the 1, 3 and 6 hour steps.
SpreadChoices == {0, 30, 31, 45, 46, 60, 61, 180, 181, 360, 361, 400, 401}

\* Sorted publish times, in minutes: none, one, two and three of them.
PublishTimesChoices ==
  {<<>>, <<100>>} \cup {<<100, 100 + spread>> : spread \in SpreadChoices}
    \cup {<<100, 110, 100 + spread>> : spread \in SpreadChoices \ {0}}

\* engine._calculate_source_velocity(publish_times), the engine's configuration having
\* this high_velocity_threshold_minutes
CalculateSourceVelocity(threshold, publish_times) ==
  Called([op |-> "calculate_source_velocity", threshold |-> threshold,
          publish_times |-> publish_times,
          returned |-> calculate_source_velocity(
                         [high_velocity_threshold_minutes |-> threshold], publish_times)])

\* engine.calculate_quality_score(cluster) of the engine with the default configuration
CalculateQualityScore(cluster) ==
  Called([op |-> "calculate_quality_score", cluster |-> cluster,
          returned |-> calculate_quality_score(DefaultPrioritizationEngine, cluster)])

\* engine._select_representative_article(cluster), datetime.now() being now
SelectRepresentativeArticle(cluster, now) ==
  Called([op |-> "select_representative_article", cluster |-> cluster, now |-> now,
          returned |-> select_representative_article(cluster, now)])

\* Edge lists handed to _create_article_clusters: at most MaxEdges results, each
\* between two different article ids, the id 9 being absent from the articles table.
MaxEdges == 3

EdgeIds == {1, 2, 3, 9}

EdgeRecords ==
  {[article_id_1 |-> x, article_id_2 |-> y, similarity_score |-> (700 + 10 * x + y) * Scale] :
     x \in EdgeIds, y \in EdgeIds}

EdgeChoices == {e \in EdgeRecords : e.article_id_1 # e.article_id_2}

EdgeLists == UNION {[1..n -> EdgeChoices] : n \in 0..MaxEdges}

\* service._create_article_clusters(similarities), the articles table holding RowPool
CreateArticleClusters(edges, now) ==
  Called([op |-> "create_article_clusters", similarities |-> edges,
          returned |-> create_article_clusters(RowPool, edges, now)])

NextFunctions ==
  \/ \E date1_str, date2_str \in DateChoices : CalculateTimeSimilarity(date1_str, date2_str)
  \/ \E edges \in EdgeLists, now \in NowChoices : CreateArticleClusters(edges, now)
  \/ \E cluster \in ScoredClusters, now \in NowChoices : SelectRepresentativeArticle(cluster, now)
  \/ \E cluster \in ScoredClusters : CalculateQualityScore(cluster)
  \/ \E threshold \in VelocityThresholdChoices, publish_times \in PublishTimesChoices :
       CalculateSourceVelocity(threshold, publish_times)
  \/ \E cluster \in ScoredClusters, now \in NowChoices :
       CalculateBreakingNewsScore(cluster, now)
  \/ \E text \in TextChoices, min_length \in MinLengthChoices, max_words \in MaxWordsChoices :
       ExtractKeywords(text, min_length, max_words)
  \/ \E title1, title2 \in TitleChoices : CalculateTitleSimilarity(title1, title2)

SpecFunctions == InitFunctions /\ [][NextFunctions]_vars

-----------------------------------------------------------------------------
(* Properties of the detector (SpecDetector) *)

DetectorReturned == call.op \in {"batch", "find"}

\* The score of articles i and j of the batch, in this argument order.
ScoreOf(i, j) == calculate_overall_similarity(detector, articles[i], articles[j])

\* C1: no SimilarityResult returned by batch_similarity_detection or
\* find_similar_articles joins two articles whose source fields are equal.
SameSourceExcluded ==
  DetectorReturned =>
    \A k \in DOMAIN similarities :
      ArticleById(similarities[k].article_id_1).source
        # ArticleById(similarities[k].article_id_2).source

\* C1 witness: a batch detection returned results although two articles of one source
\* score at or above the threshold.
SameSourceExcludedWitness ==
  /\ call.op = "batch"
  /\ similarities # <<>>
  /\ \E i, j \in DOMAIN articles :
       /\ i < j
       /\ articles[i].source = articles[j].source
       /\ ScoreOf(i, j).similarity_score >= detector.similarity_threshold * Scale

\* C2: every result returned has a score at or above the detector's threshold, and
\* batch_similarity_detection returns every cross-source pair (i before j) whose score
\* is at or above it.
ThresholdFilter ==
  /\ DetectorReturned =>
       \A k \in DOMAIN similarities :
         similarities[k].similarity_score >= detector.similarity_threshold * Scale
  /\ call.op = "batch" =>
       \A i, j \in DOMAIN articles :
         ( /\ i < j
           /\ articles[i].source # articles[j].source
           /\ ScoreOf(i, j).similarity_score >= detector.similarity_threshold * Scale )
         => \E k \in DOMAIN similarities : similarities[k] = ScoreOf(i, j)

\* C2 witness: a batch detection that returned a pair scoring exactly the threshold and
\* left out a cross-source pair below it.
ThresholdFilterWitness ==
  /\ call.op = "batch"
  /\ \E k \in DOMAIN similarities :
       similarities[k].similarity_score = detector.similarity_threshold * Scale
  /\ \E i, j \in DOMAIN articles :
       /\ i < j
       /\ articles[i].source # articles[j].source
       /\ ScoreOf(i, j).similarity_score < detector.similarity_threshold * Scale

\* C3: calculate_overall_similarity(a, b) and calculate_overall_similarity(b, a) have
\* the same similarity_score.
SymmetricSimilarityScore ==
  pair.compared => pair.forward.similarity_score = pair.backward.similarity_score

\* C10: constructing a SimilarityDetector never raises, and afterwards the three
\* weights sum to 1.0 within 0.01.
ConstructorRenormalizes ==
  call.op = "construct" =>
    /\ detector.status = "ready"
    /\ Abs(detector.title_weight + detector.keyword_weight + detector.time_weight - Scale)
         <= Scale \div 100

-----------------------------------------------------------------------------
(* Properties of the cluster builder (SpecService) *)

ArticleIds == {a.id : a \in Range(articles)}

\* A similarity edge of the list handed to the cluster builder, at or above the
\* threshold of the detector.
SimilarityEdge(x, y) ==
  \E k \in DOMAIN similarities :
    /\ {similarities[k].article_id_1, similarities[k].article_id_2} = {x, y}
    /\ similarities[k].similarity_score >= detector.similarity_threshold * Scale

\* The ids reachable from the set `from` by at most n similarity edges.
RECURSIVE ReachableWithin(_, _)
ReachableWithin(from, n) ==
  IF n = 0 THEN from
  ELSE ReachableWithin(from \cup {y \in ArticleIds : \E x \in from : SimilarityEdge(x, y)},
                       n - 1)

Connected(x, y) == y \in ReachableWithin({x}, Cardinality(ArticleIds))

ClusterBuilderRan == call.op = "detect" /\ call.ran_cluster_builder

\* C4: when A-B and B-C are similarity edges and A-C is not, A, B and C are members of
\* one cluster.
BridgedArticlesShareCluster ==
  ClusterBuilderRan =>
    \A a, b, c \in ArticleIds :
      ( /\ a # c
        /\ SimilarityEdge(a, b) /\ SimilarityEdge(b, c)
        /\ ~SimilarityEdge(a, c) )
      => \E k \in DOMAIN clusters : {a, b, c} \subseteq Members(clusters[k])

\* C5: after the cluster builder ran, every article of the batch is a member of exactly
\* one cluster.
EveryArticleInExactlyOneCluster ==
  ClusterBuilderRan =>
    \A id \in ArticleIds :
      Cardinality({k \in DOMAIN clusters : id \in Members(clusters[k])}) = 1

\* C6: any two members of one cluster are joined by a path of similarity edges of the
\* input list, each at or above the threshold.
ClusterConnectivity ==
  ClusterBuilderRan =>
    \A k \in DOMAIN clusters :
      \A x, y \in Members(clusters[k]) : Connected(x, y)

\* C6 witness: the builder made a cluster out of a list of two edges.
ClusterConnectivityWitness ==
  /\ ClusterBuilderRan
  /\ Len(similarities) >= 2
  /\ \E k \in DOMAIN clusters : Cardinality(Members(clusters[k])) >= 2

-----------------------------------------------------------------------------
(* Properties of the prioritization engine (SpecPrioritize) *)

PrioritizeReturned == call.op = "prioritize"

\* The place of a story's cluster in the list given to prioritize_stories.
InputIndex(story) ==
  CHOOSE k \in DOMAIN article_clusters : article_clusters[k].cluster_id = story.story_id

ScoreOfStory(i) == stories[i].metrics.overall_priority_score

\* C7: the list prioritize_stories returns is sorted non-increasing by
\* metrics.overall_priority_score: each story's score is at least the score of the
\* story after it.
RankingNonIncreasing ==
  PrioritizeReturned =>
    \A i \in 1..(Len(stories) - 1) : ScoreOfStory(i) >= ScoreOfStory(i + 1)

\* prioritize_stories has returned a list in which a story with a higher score stands
\* before a story whose cluster came earlier in the input.
RankingNonIncreasingWitness ==
  /\ PrioritizeReturned
  /\ \E i, j \in DOMAIN stories :
       /\ i < j
       /\ ScoreOfStory(i) > ScoreOfStory(j)
       /\ InputIndex(stories[i]) > InputIndex(stories[j])

\* C8: the ranking is stable: two stories with equal overall_priority_score appear in
\* the output in the same relative order as their clusters appeared in the input list.
TiesKeepInputOrder ==
  PrioritizeReturned =>
    \A i, j \in DOMAIN stories :
      (i < j /\ ScoreOfStory(i) = ScoreOfStory(j))
        => InputIndex(stories[i]) < InputIndex(stories[j])

\* prioritize_stories has returned two stories with equal scores, with a story of
\* another score given between their clusters.
TiesKeepInputOrderWitness ==
  /\ PrioritizeReturned
  /\ \E i, j \in DOMAIN stories :
       /\ i < j
       /\ ScoreOfStory(i) = ScoreOfStory(j)
       /\ \E k \in DOMAIN stories :
            /\ ScoreOfStory(k) # ScoreOfStory(i)
            /\ InputIndex(stories[i]) < InputIndex(stories[k])
            /\ InputIndex(stories[k]) < InputIndex(stories[j])

\* C9: constructing a PrioritizationConfig raises exactly when
\* |breaking_news_weight + coverage_weight + quality_weight - 1.0| > 0.01, and on
\* success the three weights are stored unchanged.
ConfigRaisesExactlyBeyondTolerance ==
  call.op = "config" =>
    /\ config.status = "raised"
         <=> Abs(call.weights[1] + call.weights[2] + call.weights[3] - Scale)
               > Scale \div 100
    /\ config.status = "ready" =>
         /\ config.breaking_news_weight = call.weights[1]
         /\ config.coverage_weight = call.weights[2]
         /\ config.quality_weight = call.weights[3]

\* C11: the priority_level of a story depends only on its overall_priority_score: it is
\* BREAKING from 0.8, HIGH from 0.6 to below 0.8, MEDIUM from 0.4 to below 0.6 and LOW
\* below 0.4; is_breaking is true exactly when the level is BREAKING.
PriorityLevelByThresholds ==
  PrioritizeReturned =>
    \A i \in DOMAIN stories :
      /\ stories[i].metrics.priority_level = "BREAKING" <=> ScoreOfStory(i) >= 800 * Scale
      /\ stories[i].metrics.priority_level = "HIGH"
           <=> (ScoreOfStory(i) >= 600 * Scale /\ ScoreOfStory(i) < 800 * Scale)
      /\ stories[i].metrics.priority_level = "MEDIUM"
           <=> (ScoreOfStory(i) >= 400 * Scale /\ ScoreOfStory(i) < 600 * Scale)
      /\ stories[i].metrics.priority_level = "LOW" <=> ScoreOfStory(i) < 400 * Scale
      /\ is_breaking(stories[i]) <=> stories[i].metrics.priority_level = "BREAKING"

\* prioritize_stories has returned a story whose score is exactly 0.8, which is
\* breaking, next to a story of a level below.
PriorityLevelByThresholdsWitness ==
  /\ PrioritizeReturned
  /\ \E i, j \in DOMAIN stories :
       /\ ScoreOfStory(i) = 800 * Scale
       /\ is_breaking(stories[i])
       /\ ~is_breaking(stories[j])

\* The scoring of cluster k of the input raised nothing.
ScoredWithoutError(k) ==
  PrioritizeCluster(config, article_clusters[k], call.now).raised = "none"

\* C12: prioritize_stories returns for every input: a cluster whose scoring fails is left
\* out, every other cluster yields exactly one story, and the number of stories is the
\* number of clusters scored without error.
FailedClustersLeftOut ==
  PrioritizeReturned =>
    /\ \A k \in DOMAIN article_clusters :
         Cardinality({i \in DOMAIN stories :
                        stories[i].story_id = article_clusters[k].cluster_id})
           = IF ScoredWithoutError(k) THEN 1 ELSE 0
    /\ Len(stories) = Cardinality({k \in DOMAIN article_clusters : ScoredWithoutError(k)})

\* prioritize_stories has returned stories for a list whose first cluster failed.
FailedClustersLeftOutWitness ==
  /\ PrioritizeReturned
  /\ article_clusters # <<>>
  /\ ~ScoredWithoutError(1)
  /\ Len(stories) >= 2

\* C13: a cluster without a resolvable member article, whose representative article
\* cannot be chosen, is skipped: prioritize_stories returns no story for it.
UnresolvedClusterSkipped ==
  PrioritizeReturned =>
    \A k \in DOMAIN article_clusters :
      article_clusters[k].similar_articles = <<>>
        => \A i \in DOMAIN stories : stories[i].story_id # article_clusters[k].cluster_id

\* The confidences of the articles that have one.
RECURSIVE PresentConfidences(_)
PresentConfidences(arts) ==
  IF arts = <<>> THEN <<>>
  ELSE (IF Head(arts).classification_confidence.kind = "value"
        THEN <<Head(arts).classification_confidence.v>> ELSE <<>>)
       \o PresentConfidences(Tail(arts))

\* A member of the cluster has no classification_confidence: no such key, or None.
LacksConfidence(cluster) ==
  \E i \in DOMAIN cluster.similar_articles :
    cluster.similar_articles[i].classification_confidence.kind # "value"

\* C14: a cluster with a member that has no classification_confidence (missing or
\* null), and whose breaking and coverage scores can be computed, is emitted, and the
\* classification_confidence of its metrics is the mean over the members that have a
\* value, 0.0 when none has one.
AbsentConfidenceIsValid ==
  PrioritizeReturned =>
    \A k \in DOMAIN article_clusters :
      ( /\ LacksConfidence(article_clusters[k])
        /\ calculate_breaking_news_score(config, article_clusters[k], call.now).raised = "none"
        /\ calculate_coverage_score(config, article_clusters[k]).raised = "none" )
      => \E i \in DOMAIN stories :
           /\ stories[i].story_id = article_clusters[k].cluster_id
           /\ stories[i].metrics.classification_confidence
                = Average(PresentConfidences(article_clusters[k].similar_articles))

\* The similarities whose two endpoints are both connected to the article x.
EdgesOfComponent(x) ==
  {k \in DOMAIN similarities :
     /\ Connected(x, similarities[k].article_id_1)
     /\ Connected(x, similarities[k].article_id_2)}

\* The sum of the scores of a set of similarities.
RECURSIVE SumOfEdges(_)
SumOfEdges(edges) ==
  IF edges = {} THEN 0
  ELSE LET k == CHOOSE e \in edges : TRUE
       IN  similarities[k].similarity_score + SumOfEdges(edges \ {k})

\* C15: the cluster_score of a cluster is the mean of the similarity scores of all the
\* input edges within the connected group of its articles: with edges A-B and B-C the
\* cluster of A has the mean of the two scores.
CohesionIsMeanOfEdges ==
  ClusterBuilderRan =>
    \A k \in DOMAIN clusters :
      clusters[k].cluster_score * Cardinality(EdgesOfComponent(clusters[k].main_article_id))
        = SumOfEdges(EdgesOfComponent(clusters[k].main_article_id))

\* C16: every story prioritize_stories emits has its breaking, coverage, quality and
\* overall scores within [0, 1], whatever the clusters and whatever the configuration
\* that passed construction.
StoryScoresWithinUnitInterval ==
  PrioritizeReturned =>
    \A i \in DOMAIN stories :
      /\ stories[i].metrics.breaking_news_score \in 0..Scale
      /\ stories[i].metrics.coverage_score \in 0..Scale
      /\ stories[i].metrics.quality_score \in 0..Scale
      /\ stories[i].metrics.overall_priority_score \in 0..(Scale * Scale)

\* The SimilarityResult objects the detector has returned.
ResultsReturned ==
  Range(similarities) \cup (IF pair.compared THEN {pair.forward, pair.backward} ELSE {})

\* C17: every SimilarityResult of calculate_overall_similarity has its overall, title,
\* keyword and time scores within [0, 1], whatever the weights of the detector.
SimilarityScoresWithinUnitInterval ==
  \A r \in ResultsReturned :
    /\ r.similarity_score \in 0..(Scale * Scale)
    /\ r.title_similarity \in 0..Scale
    /\ r.keyword_similarity \in 0..Scale
    /\ r.time_similarity \in 0..Scale

\* C18: is_similar of a SimilarityResult is true exactly when its similarity_score is at
\* least the threshold of the detector that produced it, so every result of
\* batch_similarity_detection has is_similar true, whatever the threshold.
IsSimilarFollowsThreshold ==
  (DetectorReturned /\ call.op = "batch") =>
    \A k \in DOMAIN similarities :
      /\ is_similar(similarities[k]) <=> AboveThreshold(detector, similarities[k])
      /\ is_similar(similarities[k])

-----------------------------------------------------------------------------
(* Properties of the pipeline (SpecPipeline) *)

PipelineReturned == call.op = "pipeline"

\* The cluster the pipeline built that a returned story is about.
ClusterOfStory(story) ==
  article_clusters[CHOOSE k \in DOMAIN article_clusters :
                     article_clusters[k].cluster_id = story.story_id]

\* A cluster scored with the configuration that run_enhanced_extraction was given.
ScoredAsConfigured(story) == PrioritizeCluster(config, ClusterOfStory(story), call.now)

\* C20: the stories run_enhanced_extraction returns are scored with the
\* prioritization_config it was given: the priority_score of each is the sum of its
\* breaking, coverage and quality scores weighted by the weights of that configuration,
\* and its coverage score counts sources against the max_sources of that configuration.
PipelineUsesGivenConfig ==
  PipelineReturned =>
    \A i \in DOMAIN call.top_stories :
      /\ ScoredAsConfigured(call.top_stories[i]).raised = "none"
      /\ call.top_stories[i].priority_score
           = RoundToThousandths(ScoredAsConfigured(call.top_stories[i]).metrics.overall_priority_score)
      /\ call.top_stories[i].coverage_score
           = ScoredAsConfigured(call.top_stories[i]).metrics.coverage_score

-----------------------------------------------------------------------------
(* Properties of the workers (SpecWorkers) *)

WorkersCollected == call.op = "collect"

\* No step of a worker assigns the articles or the detector.
SharedInputsUnmodified == [][detector' = detector /\ articles' = articles]_vars

PipelineRanksDetectedClusters ==
  (PipelineReturned /\ metrics.clusters_created >= 1)
    => \E i \in DOMAIN stories : stories[i].article_count >= 2

-----------------------------------------------------------------------------
(* Properties of the functions called directly (SpecFunctions) *)

TimeSimilarityReturned == call.op = "calculate_time_similarity"

\* A date string that normalize_date parses.
Parseable(date_str) == date_str.kind \in {"naive", "aware"}

\* The step function of a difference of d minutes.
StepOfDifference(d) ==
  IF d <= 6 * 60 THEN Scale
  ELSE IF d <= 24 * 60 THEN 800
  ELSE IF d <= 48 * 60 THEN 500
  ELSE IF d <= 168 * 60 THEN 200
  ELSE 0

\* C22: calculate_time_similarity of two publish times that parse is the step function
\* of their absolute difference (1.0 up to 6 h, 0.8 up to 24 h, 0.5 up to 48 h, 0.2 up
\* to 168 h, 0.0 beyond), and it is 0.0 when either is empty or does not parse.
TimeSimilarityIsStepFunction ==
  TimeSimilarityReturned =>
    call.returned = IF Parseable(call.date1_str) /\ Parseable(call.date2_str)
                    THEN StepOfDifference(Abs(call.date1_str.t - call.date2_str.t))
                    ELSE 0

TitleSimilarityReturned == call.op = "calculate_title_similarity"

\* The word set of a title after normalization.
TitleWords(title) == Range(Split(clean_title(title)))

\* 0.20 times the Jaccard overlap of two word sets, in thousandths.
JaccardBoost(words1, words2) ==
  (2 * Scale * Cardinality(words1 \cap words2)) \div (10 * Cardinality(words1 \cup words2))

\* C23: calculate_title_similarity is the sequence-similarity ratio of the normalized
\* titles plus 0.20 times the Jaccard overlap of their word sets, capped at 1.0, and 0.0
\* when either title is empty before or after normalization.
TitleBoostIsJaccard ==
  TitleSimilarityReturned =>
    call.returned =
      IF clean_title(call.title1) = <<>> \/ clean_title(call.title2) = <<>> THEN 0
      ELSE Min(Scale, SequenceMatcherRatio(clean_title(call.title1), clean_title(call.title2))
                        + JaccardBoost(TitleWords(call.title1), TitleWords(call.title2)))

KeywordsReturned == call.op = "extract_keywords"

\* The words of the text of the call, lower case and without punctuation.
WordsOfCall == Split(SubPunctuation(Lower(call.text)))

\* The words that remain after filtering.
RemainingKeywords ==
  {w \in Range(WordsOfCall) :
     Len(w) >= call.min_length /\ w \notin ALL_STOP_WORDS /\ ~IsDigit(w)}

FirstPosition(w) == CHOOSE i \in DOMAIN WordsOfCall :
                      WordsOfCall[i] = w /\ \A j \in 1..(i - 1) : WordsOfCall[j] # w

\* Keyword k goes before keyword c: it is more frequent, or as frequent and earlier.
GoesBefore(k, c) ==
  \/ CountWord(WordsOfCall, k) > CountWord(WordsOfCall, c)
  \/ /\ CountWord(WordsOfCall, k) = CountWord(WordsOfCall, c)
     /\ FirstPosition(k) < FirstPosition(c)

\* C24: extract_keywords returns at most max_words keywords, none of them a stop word,
\* shorter than min_length or all digits; when more than max_words keywords remain
\* after filtering it returns the max_words most frequent, a tie going to the keyword
\* that occurs first in the text, and otherwise all that remain.
KeywordsAreTheMostFrequent ==
  KeywordsReturned =>
    /\ Cardinality(call.returned) <= call.max_words
    /\ call.returned \subseteq RemainingKeywords
    /\ IF Cardinality(RemainingKeywords) > call.max_words
       THEN /\ Cardinality(call.returned) = call.max_words
            /\ \A k \in call.returned : \A c \in RemainingKeywords \ call.returned :
                 GoesBefore(k, c)
       ELSE call.returned = RemainingKeywords

KeywordsAreTheMostFrequentWitness ==
  /\ KeywordsReturned
  /\ Cardinality(RemainingKeywords) > call.max_words
  /\ \E k \in call.returned : \E c \in RemainingKeywords \ call.returned :
       /\ CountWord(WordsOfCall, k) = CountWord(WordsOfCall, c)
       /\ \E m \in call.returned : CountWord(WordsOfCall, m) > CountWord(WordsOfCall, k)

BreakingScoreReturned ==
  call.op = "calculate_breaking_news_score" /\ call.returned.raised = "none"

\* The configured urgency keywords that occur in the title or summary of a member.
KeywordsOfMembers ==
  {keyword \in Range(DefaultUrgencyKeywords) :
     \E i \in DOMAIN call.cluster.similar_articles :
       Contains(Lower(call.cluster.similar_articles[i].title \o <<" ">>
                        \o call.cluster.similar_articles[i].summary),
                Lower(keyword))}

\* 0.0, 0.1, 0.2 or 0.3 for no, one, two or at least three keywords.
BonusForCount(n) == IF n >= 3 THEN 300 ELSE n * 100

\* C25: calculate_breaking_news_score returns min(1.0, 0.6 * time_urgency
\* + 0.4 * source_velocity + urgency_bonus), the bonus being 0.0, 0.1, 0.2 or 0.3 for
\* 0, 1, 2 or at least 3 distinct configured urgency keywords found in the titles and
\* summaries of the members of the cluster.
BreakingScoreFormula ==
  BreakingScoreReturned =>
    /\ call.returned.urgency_keywords_found = KeywordsOfMembers
    /\ call.returned.urgency_bonus = BonusForCount(Cardinality(KeywordsOfMembers))
    /\ call.returned.score
         = Min(Scale, (6 * call.returned.time_urgency + 4 * call.returned.source_velocity)
                        \div 10
                      + BonusForCount(Cardinality(KeywordsOfMembers)))

BreakingScoreFormulaWitness ==
  /\ BreakingScoreReturned
  /\ Cardinality(KeywordsOfMembers) > 3
  /\ call.returned.score = Scale
  /\ (6 * call.returned.time_urgency + 4 * call.returned.source_velocity) \div 10 + 300 > Scale

VelocityReturned == call.op = "calculate_source_velocity"

\* The spread between the earliest and the latest publish time of the call.
SpreadOfCall == call.publish_times[Len(call.publish_times)] - call.publish_times[1]

\* The steps below the first one: 0.8 up to 1 h, 0.6 up to 3 h, 0.4 up to 6 h, then 0.2.
LowerVelocitySteps(spread) ==
  IF spread <= 60 THEN 800
  ELSE IF spread <= 180 THEN 600
  ELSE IF spread <= 360 THEN 400
  ELSE 200

\* The members of the cluster of the call whose published_date parses.
ParseableMembers ==
  {i \in DOMAIN call.cluster.similar_articles :
     call.cluster.similar_articles[i].published_date.kind \in {"naive", "aware"}}

\* C26 as stated: for any configured threshold, source_velocity is 1.0 for a spread of
\* at most 30 minutes, 0.8 up to 60 minutes, then 0.6, 0.4, and 0.2 beyond 6 hours.
VelocityStepsForAnyThreshold ==
  (VelocityReturned /\ Len(call.publish_times) >= 2) =>
    call.returned = IF SpreadOfCall <= 30 THEN Scale ELSE LowerVelocitySteps(SpreadOfCall)

\* C26, amended: source_velocity is 1.0 for a spread of at most the configured
\* high_velocity_threshold_minutes (30 by default) and otherwise 0.8 up to 60 minutes,
\* 0.6 up to 3 hours, 0.4 up to 6 hours and 0.2 beyond; for any configured threshold it
\* is non-increasing in the spread; and it is 0.5 for fewer than two publish times, as
\* for a cluster with fewer than two members whose date parses.
VelocityStepsFromConfiguredThreshold ==
  /\ (VelocityReturned /\ Len(call.publish_times) >= 2) =>
       /\ call.returned = IF SpreadOfCall <= call.threshold THEN Scale
                          ELSE LowerVelocitySteps(SpreadOfCall)
       /\ \A wider \in {spread \in SpreadChoices : spread >= SpreadOfCall} :
            calculate_source_velocity([high_velocity_threshold_minutes |-> call.threshold],
                                      <<0, wider>>) <= call.returned
  /\ (VelocityReturned /\ Len(call.publish_times) < 2) => call.returned = 500
  /\ (BreakingScoreReturned /\ Cardinality(ParseableMembers) < 2) =>
       call.returned.source_velocity = 500

VelocityStepsFromConfiguredThresholdWitness ==
  /\ VelocityReturned
  /\ Len(call.publish_times) >= 2
  /\ SpreadOfCall > 30
  /\ call.returned = Scale

QualityReturned ==
  /\ call.op = "calculate_quality_score"
  /\ call.returned.raised = "none"
  /\ ~call.returned.empty

\* clamp((len - min) / (max - min), 0, 1) of each member of the cluster of the call
ClampedDepths ==
  [i \in DOMAIN call.cluster.similar_articles |->
     Max(0, Min(Scale,
                Frac(call.cluster.similar_articles[i].content_length
                       - DefaultPrioritizationEngine.min_content_length,
                     DefaultPrioritizationEngine.max_content_length
                       - DefaultPrioritizationEngine.min_content_length)))]

\* C27: the content depth of the quality score is the mean over all members of the
\* clamped depth of each; a member shorter than min_content_length contributes 0 and
\* still counts in the denominator.
ContentDepthIsMeanOverAllMembers ==
  QualityReturned =>
    call.returned.content_depth_score = SumSeq(ClampedDepths) \div Len(ClampedDepths)

RepresentativeReturned ==
  /\ call.op = "select_representative_article"
  /\ call.cluster.similar_articles # <<>>

\* The members of the cluster of the call.
MembersOfCall == Range(call.cluster.similar_articles)

\* C28: the representative article is a member of the cluster, the one with the longest
\* content, and among members of that length one published no earlier than the others.
RepresentativeIsLongestMember ==
  RepresentativeReturned =>
    /\ call.returned \in MembersOfCall
    /\ \A member \in MembersOfCall :
         /\ member.content_length <= call.returned.content_length
         /\ (/\ member.content_length = call.returned.content_length
             /\ parse_date(member.published_date) # None
             /\ parse_date(call.returned.published_date) # None)
            => parse_date(member.published_date).t <= parse_date(call.returned.published_date).t

ClustersReturned == call.op = "create_article_clusters"

\* C29: every cluster _create_article_clusters returns has exactly two members, the
\* main article and one similar article, the two ends of one edge of the input list, and
\* no article id is a member of two clusters of one call.
ClustersArePairsAndDisjoint ==
  ClustersReturned =>
    /\ \A k \in DOMAIN call.returned :
         /\ ArticleCount(call.returned[k]) = 2
         /\ Cardinality(Members(call.returned[k])) = 2
         /\ \E n \in DOMAIN call.similarities :
              /\ call.similarities[n].article_id_1 = call.returned[k].main_article_id
              /\ <<call.similarities[n].article_id_2>> = call.returned[k].similar_articles
    /\ \A k, m \in DOMAIN call.returned :
         k # m => Members(call.returned[k]) \cap Members(call.returned[m]) = {}

\* C29 witness: an edge list of three edges, one of them touching an article of the
\* cluster built before it, gave one cluster.
ClustersArePairsAndDisjointWitness ==
  /\ ClustersReturned
  /\ Len(call.similarities) = 3
  /\ Len(call.returned) = 1
  /\ \E n \in 2..3 :
       /\ call.similarities[n].article_id_1 \in Members(call.returned[1])
       /\ call.similarities[n].article_id_2 \notin Members(call.returned[1])
       /\ call.similarities[n].article_id_2 # 9

\* The publish times of the members of the cluster of the call whose date parses.
ParseableTimes ==
  {call.cluster.similar_articles[i].published_date.t : i \in ParseableMembers}

\* 1.0, 0.9, 0.8, 0.6, 0.3 and 0.1, stepping down after 0.5, 1, 2, 6 and 24 hours.
UrgencyOfAge(minutes_ago) ==
  IF minutes_ago <= 30 THEN 1000
  ELSE IF minutes_ago <= 60 THEN 900
  ELSE IF minutes_ago <= 120 THEN 800
  ELSE IF minutes_ago <= 360 THEN 600
  ELSE IF minutes_ago <= 1440 THEN 300
  ELSE 100

\* C30: time_urgency is 1.0 when no member of the cluster has a parseable publish date,
\* and otherwise the step function of the time since the latest parseable member
\* publish time.
UrgencyFollowsLatestParseableDate ==
  BreakingScoreReturned =>
    call.returned.time_urgency =
      IF ParseableTimes = {} THEN Scale
      ELSE UrgencyOfAge(call.now
                          - (CHOOSE t \in ParseableTimes : \A u \in ParseableTimes : u <= t))

====
